---- MODULE Spec2Model ----
(***************************************************************************)
(* The dilation protocol engine (type dilationProtocol): the Manager,      *)
(* Connector and L2-connection state machines, role election, and the     *)
(* payload-carrying wrappers around the Connector and L2 machines.         *)
(***************************************************************************)
EXTENDS Integers, Sequences, FiniteSets, TLC

(***************************************************************************)
(* Bounds of the model.                                                    *)
(***************************************************************************)
\* A side is a string of SideLen hex digits (16 in the program).
SideLen == 2
\* Event codes are Go ints: this many undefined codes are tried below and
\* above the defined ones of each machine.
ExtraCodes == 1
\* Records are numbered in arrival order; this many arrive on the L2.
MaxRecords == 3
\* the counters of returned SendPlease and ChooseRole commands stop here
MaxSent == 2

(***************************************************************************)
(* Sides and roles.                                                        *)
(***************************************************************************)
\* two of the sixteen hex digits, in the order of their characters
Digits == {0, 1}
\* what genSide can return
Sides == [1..SideLen -> Digits]
\* no side: the peer of a lone engine, a frame without the key "side"
NoSide == <<-1>>
\* what a peer's please can carry: any string, also shorter ones
OtherSides == UNION {[1..n -> Digits] : n \in 0..SideLen}

\* zero value of Role
NoRole == ""
Leader == "Leader"
Follower == "Follower"

\* Go's < on strings: bytewise lexicographic, a proper prefix is smaller
RECURSIVE StringLess(_, _)
StringLess(a, b) ==
  IF b = <<>> THEN FALSE
  ELSE IF a = <<>> THEN TRUE
  ELSE IF Head(a) < Head(b) THEN TRUE
  ELSE IF Head(a) > Head(b) THEN FALSE
  ELSE StringLess(Tail(a), Tail(b))

\* chooseRole with the comparison the wrong way round
chooseRoleSwapped(dside, drole, other) ==
  IF StringLess(dside, other) THEN [role |-> Leader, err |-> FALSE]
  ELSE IF StringLess(other, dside) THEN [role |-> Follower, err |-> FALSE]
  ELSE [role |-> drole, err |-> TRUE]

\* d.chooseRole(otherSide): the role field after the call and whether an
\* error is returned
chooseRole(dside, drole, other) ==
  IF StringLess(other, dside) THEN [role |-> Leader, err |-> FALSE]
  ELSE IF StringLess(dside, other) THEN [role |-> Follower, err |-> FALSE]
  ELSE [role |-> drole, err |-> TRUE]

(***************************************************************************)
(* Manager: states, input events, output events.                           *)
(***************************************************************************)
ManagerStateWaiting == "ManagerStateWaiting"
ManagerStateWanting == "ManagerStateWanting"
ManagerStateConnecting == "ManagerStateConnecting"
ManagerStateConnected == "ManagerStateConnected"
ManagerStateFlushing == "ManagerStateFlushing"
ManagerStateLonely == "ManagerStateLonely"
ManagerStateAbandoning == "ManagerStateAbandoning"
ManagerStateStopping == "ManagerStateStopping"
ManagerStateStopped == "ManagerStateStopped"

ManagerStates ==
  {ManagerStateWaiting, ManagerStateWanting, ManagerStateConnecting,
   ManagerStateConnected, ManagerStateFlushing, ManagerStateLonely,
   ManagerStateAbandoning, ManagerStateStopping, ManagerStateStopped}

ManagerInputEventStart == 0
ManagerInputEventRxPlease == 1
ManagerInputEventConnectionMade == 2
ManagerInputEventRxReconnecting == 3
ManagerInputEventRxReconnect == 4
ManagerInputEventConnectionLostLeader == 5
ManagerInputEventConnectionLostFollower == 6
ManagerInputEventRxHints == 7
ManagerInputEventStop == 8

\* ManagerInputEvent is an int: the defined codes and some undefined ones
ManagerInputEvents ==
  (ManagerInputEventStart - ExtraCodes)..(ManagerInputEventStop + ExtraCodes)

\* the two events by which a lost connection is reported
ConnectionLostEvents ==
  {ManagerInputEventConnectionLostLeader,
   ManagerInputEventConnectionLostFollower}

ManagerOutputEventSendPlease == 0
ManagerOutputEventNotifyStopped == 1
ManagerOutputEventRxHints == 2
ManagerOutputEventChooseRole == 3
ManagerOutputEventStartConnectingIgnoreMsg == 4
ManagerOutputEventUseHints == 5
ManagerOutputEventStopConnecting == 6
ManagerOutputEventSendReconnecting == 7
ManagerOutputEventStartConnecting == 8
ManagerOutputEventSendReconnect == 9
ManagerOutputEventAbandonConnection == 10

\* the result of one step: the state field afterwards and the returned slice
\* (a nil slice and an empty slice are both the empty sequence)
Step(state, out) == [state |-> state, out |-> out]
Ignored(currState) == Step(currState, <<>>)

(***************************************************************************)
(* managerStateMachine: one operator per case of the outer switch on the   *)
(* event, each a switch on the current state.                              *)
(***************************************************************************)
\* Start honoured by a Stopped manager as well
managerOnStartRestarts(currState) ==
  IF currState \in {ManagerStateWaiting, ManagerStateStopped}
  THEN Step(ManagerStateWanting, <<ManagerOutputEventSendPlease>>)
  ELSE Ignored(currState)

managerOnStart(currState) ==
  IF currState = ManagerStateWaiting
  THEN Step(ManagerStateWanting, <<ManagerOutputEventSendPlease>>)
  ELSE Ignored(currState)

\* RxPlease honoured in Connecting as well: the role is chosen again
managerOnRxPleaseAgain(currState) ==
  IF currState \in {ManagerStateWanting, ManagerStateConnecting}
  THEN Step(ManagerStateConnecting,
            <<ManagerOutputEventChooseRole,
              ManagerOutputEventStartConnectingIgnoreMsg>>)
  ELSE Ignored(currState)

managerOnRxPlease(currState) ==
  IF currState = ManagerStateWanting
  THEN Step(ManagerStateConnecting,
            <<ManagerOutputEventChooseRole,
              ManagerOutputEventStartConnectingIgnoreMsg>>)
  ELSE Ignored(currState)

\* ConnectionMade also honoured by a Lonely manager
managerOnConnectionMadeFromLonely(currState) ==
  IF currState \in {ManagerStateConnecting, ManagerStateLonely}
  THEN Step(ManagerStateConnected, <<>>)
  ELSE Ignored(currState)

managerOnConnectionMade(currState) ==
  IF currState = ManagerStateConnecting
  THEN Step(ManagerStateConnected, <<>>)
  ELSE Ignored(currState)

managerOnRxReconnecting(currState) ==
  IF currState = ManagerStateFlushing
  THEN Step(ManagerStateConnecting, <<ManagerOutputEventStartConnecting>>)
  ELSE Ignored(currState)

\* RxReconnect in Connecting restarting before it stops
managerOnRxReconnectStartFirst(currState) ==
  CASE currState = ManagerStateConnected ->
         Step(ManagerStateAbandoning, <<ManagerOutputEventAbandonConnection>>)
    [] currState = ManagerStateConnecting ->
         Step(currState,
              <<ManagerOutputEventStartConnecting,
                ManagerOutputEventSendReconnecting,
                ManagerOutputEventStopConnecting>>)
    [] currState = ManagerStateLonely ->
         Step(ManagerStateConnecting,
              <<ManagerOutputEventSendReconnecting,
                ManagerOutputEventStartConnecting>>)
    [] OTHER -> Ignored(currState)

managerOnRxReconnect(currState) ==
  CASE currState = ManagerStateConnected ->
         Step(ManagerStateAbandoning, <<ManagerOutputEventAbandonConnection>>)
    [] currState = ManagerStateConnecting ->
         Step(currState,
              <<ManagerOutputEventStopConnecting,
                ManagerOutputEventSendReconnecting,
                ManagerOutputEventStartConnecting>>)
    [] currState = ManagerStateLonely ->
         Step(ManagerStateConnecting,
              <<ManagerOutputEventSendReconnecting,
                ManagerOutputEventStartConnecting>>)
    [] OTHER -> Ignored(currState)

\* a loss handler that restarts connecting at once, without waiting for
\* the peer's reconnecting
managerOnConnectionLostLeaderRestarts(currState) ==
  CASE currState = ManagerStateConnected ->
         Step(ManagerStateFlushing,
              <<ManagerOutputEventSendReconnect,
                ManagerOutputEventStartConnecting>>)
    [] currState = ManagerStateStopping ->
         Step(ManagerStateStopped, <<ManagerOutputEventNotifyStopped>>)
    [] OTHER -> Ignored(currState)

managerOnConnectionLostLeader(currState) ==
  CASE currState = ManagerStateConnected ->
         Step(ManagerStateFlushing, <<ManagerOutputEventSendReconnect>>)
    [] currState = ManagerStateStopping ->
         Step(ManagerStateStopped, <<ManagerOutputEventNotifyStopped>>)
    [] OTHER -> Ignored(currState)

managerOnConnectionLostFollower(currState) ==
  CASE currState = ManagerStateConnected ->
         Step(ManagerStateLonely, <<>>)
    [] currState = ManagerStateAbandoning ->
         Step(ManagerStateConnecting,
              <<ManagerOutputEventSendReconnecting,
                ManagerOutputEventStartConnecting>>)
    [] currState = ManagerStateStopping ->
         Step(ManagerStateStopped, <<ManagerOutputEventNotifyStopped>>)
    [] OTHER -> Ignored(currState)

managerOnRxHints(currState) ==
  CASE currState \in {ManagerStateWanting, ManagerStateConnected,
                      ManagerStateAbandoning, ManagerStateFlushing,
                      ManagerStateLonely, ManagerStateStopping} ->
         Step(currState, <<>>)
    [] currState = ManagerStateConnecting ->
         Step(currState, <<ManagerOutputEventUseHints>>)
    [] OTHER -> Ignored(currState)

\* a Stop that, taken in Connecting, notifies before it stops the attempt
managerOnStopNotifiesFirst(currState) ==
  CASE currState \in {ManagerStateWaiting, ManagerStateWanting,
                      ManagerStateLonely, ManagerStateFlushing} ->
         Step(ManagerStateStopped, <<ManagerOutputEventNotifyStopped>>)
    [] currState = ManagerStateConnecting ->
         Step(ManagerStateStopped,
              <<ManagerOutputEventNotifyStopped,
                ManagerOutputEventStopConnecting>>)
    [] currState = ManagerStateConnected ->
         Step(ManagerStateStopping, <<ManagerOutputEventAbandonConnection>>)
    [] currState = ManagerStateAbandoning ->
         Step(ManagerStateStopping, <<>>)
    [] OTHER -> Ignored(currState)

\* a Stop that, taken in Connecting, leaves the attempt running
managerOnStopLeavesAttempt(currState) ==
  CASE currState \in {ManagerStateWaiting, ManagerStateWanting,
                      ManagerStateLonely, ManagerStateFlushing,
                      ManagerStateConnecting} ->
         Step(ManagerStateStopped, <<ManagerOutputEventNotifyStopped>>)
    [] currState = ManagerStateConnected ->
         Step(ManagerStateStopping, <<ManagerOutputEventAbandonConnection>>)
    [] currState = ManagerStateAbandoning ->
         Step(ManagerStateStopping, <<>>)
    [] OTHER -> Ignored(currState)

managerOnStop(currState) ==
  CASE currState \in {ManagerStateWaiting, ManagerStateWanting,
                      ManagerStateLonely, ManagerStateFlushing} ->
         Step(ManagerStateStopped, <<ManagerOutputEventNotifyStopped>>)
    [] currState = ManagerStateConnecting ->
         Step(ManagerStateStopped,
              <<ManagerOutputEventStopConnecting,
                ManagerOutputEventNotifyStopped>>)
    [] currState = ManagerStateConnected ->
         Step(ManagerStateStopping, <<ManagerOutputEventAbandonConnection>>)
    [] currState = ManagerStateAbandoning ->
         Step(ManagerStateStopping, <<>>)
    [] OTHER -> Ignored(currState)

\* an undefined event code treated as a Start that restarts any manager
managerOnUnknownRestarts(currState, event) ==
  Step(ManagerStateWanting, <<ManagerOutputEventSendPlease>>)

\* the outer switch's default: the code is logged, nothing else happens
managerOnUnknown(currState, event) == Ignored(currState)

managerStateMachine(currState, event) ==
  CASE event = ManagerInputEventStart -> managerOnStart(currState)
    [] event = ManagerInputEventRxPlease -> managerOnRxPlease(currState)
    [] event = ManagerInputEventConnectionMade ->
         managerOnConnectionMade(currState)
    [] event = ManagerInputEventRxReconnecting ->
         managerOnRxReconnecting(currState)
    [] event = ManagerInputEventRxReconnect -> managerOnRxReconnect(currState)
    [] event = ManagerInputEventConnectionLostLeader ->
         managerOnConnectionLostLeader(currState)
    [] event = ManagerInputEventConnectionLostFollower ->
         managerOnConnectionLostFollower(currState)
    [] event = ManagerInputEventRxHints -> managerOnRxHints(currState)
    [] event = ManagerInputEventStop -> managerOnStop(currState)
    [] OTHER -> managerOnUnknown(currState, event)

(***************************************************************************)
(* Connector: states, input events with their payload, output events.      *)
(***************************************************************************)
\* zero value of ConnectorState, which InitDilation leaves in the field
NoConnectorState == ""
ConnectorStateConnecting == "ConnectorStateConnecting"
ConnectorStateConnected == "ConnectorStateConnected"
ConnectorStateStopped == "ConnectorStateStopped"

ConnectorInputEventListenerReady == 0
ConnectorInputEventAccept == 1
ConnectorInputEventAddCandidate == 2
ConnectorInputEventGotHints == 3
ConnectorInputEventAddRelay == 4
ConnectorInputEventStop == 5

ConnectorInputEvents ==
  (ConnectorInputEventListenerReady - ExtraCodes)..
    (ConnectorInputEventStop + ExtraCodes)

ConnectorOutputEventPublishHints == 0
ConnectorOutputEventSelectAndStopRemaining == 1
ConnectorOutputEventConsider == 2
ConnectorOutputEventUseHints == 3
ConnectorOutputEventStopEverything == 4

\* Candidate is a string; "" is its zero value
NoCandidate == ""
Candidates == {"candA", "candB"}
\* values of transitHintsV1, "" standing for its zero value
NoHints == ""
Hints == {"hintsA"}

\* ConnectorInputEventS
ConnectorInputEventS ==
  [Event : ConnectorInputEvents,
   hints : Hints \cup {NoHints},
   candidate : Candidates \cup {NoCandidate}]

\* a ConnectorOutputEventS / L2ConnOutputEventS literal: the fields it does
\* not name keep their zero value
OutputEventS(event, hints, candidate) ==
  [Event |-> event, hints |-> hints, candidate |-> candidate]

(***************************************************************************)
(* connectorStateMachine, one operator per case of the switch on the event.*)
(***************************************************************************)
connectorOnListenerReady(currState) ==
  IF currState = ConnectorStateConnecting
  THEN Step(currState, <<ConnectorOutputEventPublishHints>>)
  ELSE Ignored(currState)

\* Accept honoured in Connected as well
connectorOnAcceptAgain(currState) ==
  IF currState \in {ConnectorStateConnecting, ConnectorStateConnected}
  THEN Step(ConnectorStateConnected,
            <<ConnectorOutputEventSelectAndStopRemaining>>)
  ELSE Ignored(currState)

connectorOnAccept(currState) ==
  IF currState = ConnectorStateConnecting
  THEN Step(ConnectorStateConnected,
            <<ConnectorOutputEventSelectAndStopRemaining>>)
  ELSE Ignored(currState)

connectorOnAddCandidate(currState) ==
  IF currState = ConnectorStateConnecting
  THEN Step(currState, <<ConnectorOutputEventConsider>>)
  ELSE Ignored(currState)

\* GotHints acted upon in Connected as it is in Connecting
connectorOnGotHintsLate(currState) ==
  IF currState \in {ConnectorStateConnecting, ConnectorStateConnected}
  THEN Step(currState, <<ConnectorOutputEventUseHints>>)
  ELSE Ignored(currState)

connectorOnGotHints(currState) ==
  IF currState = ConnectorStateConnecting
  THEN Step(currState, <<ConnectorOutputEventUseHints>>)
  ELSE Ignored(currState)

\* AddRelay publishing before using the hints
connectorOnAddRelayPublishFirst(currState) ==
  IF currState = ConnectorStateConnecting
  THEN Step(currState,
            <<ConnectorOutputEventPublishHints,
              ConnectorOutputEventUseHints>>)
  ELSE Ignored(currState)

connectorOnAddRelay(currState) ==
  IF currState = ConnectorStateConnecting
  THEN Step(currState,
            <<ConnectorOutputEventUseHints,
              ConnectorOutputEventPublishHints>>)
  ELSE Ignored(currState)

connectorOnStop(currState) ==
  IF currState \in {ConnectorStateConnecting, ConnectorStateConnected}
  THEN Step(ConnectorStateStopped, <<ConnectorOutputEventStopEverything>>)
  ELSE Ignored(currState)

connectorStateMachine(currState, event) ==
  CASE event = ConnectorInputEventListenerReady ->
         connectorOnListenerReady(currState)
    [] event = ConnectorInputEventAccept -> connectorOnAccept(currState)
    [] event = ConnectorInputEventAddCandidate ->
         connectorOnAddCandidate(currState)
    [] event = ConnectorInputEventGotHints -> connectorOnGotHints(currState)
    [] event = ConnectorInputEventAddRelay -> connectorOnAddRelay(currState)
    [] event = ConnectorInputEventStop -> connectorOnStop(currState)
    [] OTHER -> Ignored(currState)

\* "for output := range outputs": with one loop variable Go's range over a
\* slice yields the indices 0 .. len-1, not the elements
RangeKeys(outputs) == [i \in 1..Len(outputs) |-> i - 1]

\* the concatenation of a sequence of sequences, in order
RECURSIVE Concat(_)
Concat(ss) == IF ss = <<>> THEN <<>> ELSE Head(ss) \o Concat(Tail(ss))

\* the body of processConnectorStateMachine's loop: what one value of the
\* loop variable appends to outputEvents
connectorOutputFor(output, input) ==
  CASE output = ConnectorOutputEventPublishHints ->
         <<OutputEventS(ConnectorOutputEventPublishHints,
                        input.hints, NoCandidate)>>
    [] output = ConnectorOutputEventSelectAndStopRemaining ->
         <<OutputEventS(ConnectorOutputEventSelectAndStopRemaining,
                        NoHints, input.candidate)>>
    [] output = ConnectorOutputEventConsider ->
         <<OutputEventS(ConnectorOutputEventConsider,
                        NoHints, input.candidate)>>
    [] output = ConnectorOutputEventUseHints ->
         <<OutputEventS(ConnectorOutputEventUseHints,
                        input.hints, NoCandidate)>>
    [] output = ConnectorOutputEventStopEverything ->
         <<OutputEventS(ConnectorOutputEventStopEverything,
                        NoHints, NoCandidate)>>
    [] OTHER -> <<>>

\* processConnectorStateMachine(input): the state afterwards, what the call
\* of connectorStateMachine returned and what the wrapper returns
processConnectorStateMachine(currState, input) ==
  LET r == connectorStateMachine(currState, input.Event)
      keys == RangeKeys(r.out)
  IN [state |-> r.state,
      codes |-> r.out,
      events |-> Concat([i \in DOMAIN keys |->
                           connectorOutputFor(keys[i], input)])]

(***************************************************************************)
(* L2 connection: states, input events, output events.                     *)
(***************************************************************************)
\* zero value of L2ConnState, which InitDilation leaves in the field
NoL2ConnState == ""
L2ConnStateUnselected == "L2ConnStateUnselected"
L2ConnStateSelecting == "L2ConnStateSelecting"
L2ConnStateSelected == "L2ConnStateSelected"

L2ConnInputEventGotKCM == 0
L2ConnInputEventSelect == 1
L2ConnInputEventGotRecord == 2

L2ConnInputEvents ==
  (L2ConnInputEventGotKCM - ExtraCodes)..
    (L2ConnInputEventGotRecord + ExtraCodes)

L2ConnOutputEventAddCandidate == 0
L2ConnOutputEventSetManager == 1
L2ConnOutputEventCanSendRecords == 2
L2ConnOutputEventProcessInboundQueue == 3
L2ConnOutputEventQueueInboundRecord == 4
L2ConnOutputEventDeliverRecord == 5

\* L2ConnInputEventS
L2ConnInputEventS ==
  [Event : L2ConnInputEvents, candidate : Candidates \cup {NoCandidate}]

(***************************************************************************)
(* l2ConnStateMachine, one operator per case of the switch on the event.   *)
(***************************************************************************)
l2ConnOnGotKCM(currState) ==
  IF currState = L2ConnStateUnselected
  THEN Step(L2ConnStateSelecting, <<L2ConnOutputEventAddCandidate>>)
  ELSE Ignored(currState)

\* Select honoured in Unselected, before any key confirmation message
l2ConnOnSelectUnconfirmed(currState) ==
  IF currState \in {L2ConnStateUnselected, L2ConnStateSelecting}
  THEN Step(L2ConnStateSelected,
            <<L2ConnOutputEventSetManager,
              L2ConnOutputEventCanSendRecords,
              L2ConnOutputEventProcessInboundQueue>>)
  ELSE Ignored(currState)

\* Select honoured in Selected as well
l2ConnOnSelectAgain(currState) ==
  IF currState \in {L2ConnStateSelecting, L2ConnStateSelected}
  THEN Step(L2ConnStateSelected,
            <<L2ConnOutputEventSetManager,
              L2ConnOutputEventCanSendRecords,
              L2ConnOutputEventProcessInboundQueue>>)
  ELSE Ignored(currState)

l2ConnOnSelect(currState) ==
  IF currState = L2ConnStateSelecting
  THEN Step(L2ConnStateSelected,
            <<L2ConnOutputEventSetManager,
              L2ConnOutputEventCanSendRecords,
              L2ConnOutputEventProcessInboundQueue>>)
  ELSE Ignored(currState)

\* GotRecord queued in Selected as it is in Selecting
l2ConnOnGotRecordQueues(currState) ==
  IF currState \in {L2ConnStateSelecting, L2ConnStateSelected}
  THEN Step(currState, <<L2ConnOutputEventQueueInboundRecord>>)
  ELSE Ignored(currState)

l2ConnOnGotRecord(currState) ==
  CASE currState = L2ConnStateSelecting ->
         Step(currState, <<L2ConnOutputEventQueueInboundRecord>>)
    [] currState = L2ConnStateSelected ->
         Step(currState, <<L2ConnOutputEventDeliverRecord>>)
    [] OTHER -> Ignored(currState)

l2ConnStateMachine(currState, event) ==
  CASE event = L2ConnInputEventGotKCM -> l2ConnOnGotKCM(currState)
    [] event = L2ConnInputEventSelect -> l2ConnOnSelect(currState)
    [] event = L2ConnInputEventGotRecord -> l2ConnOnGotRecord(currState)
    [] OTHER -> Ignored(currState)

\* the body of processL2ConnStateMachine's loop: what one value of the loop
\* variable appends to outputEvents
l2ConnOutputFor(output, input) ==
  CASE output = L2ConnOutputEventAddCandidate ->
         <<OutputEventS(L2ConnOutputEventAddCandidate,
                        NoHints, input.candidate)>>
    [] output \in {L2ConnOutputEventSetManager,
                   L2ConnOutputEventCanSendRecords,
                   L2ConnOutputEventProcessInboundQueue,
                   L2ConnOutputEventQueueInboundRecord,
                   L2ConnOutputEventDeliverRecord} ->
         <<OutputEventS(output, NoHints, NoCandidate)>>
    [] OTHER -> <<>>

\* processL2ConnStateMachine(input): the state afterwards, what the call of
\* l2ConnStateMachine returned and what the wrapper returns
processL2ConnStateMachine(currState, input) ==
  LET r == l2ConnStateMachine(currState, input.Event)
      keys == RangeKeys(r.out)
  IN [state |-> r.state,
      codes |-> r.out,
      events |-> Concat([i \in DOMAIN keys |->
                           l2ConnOutputFor(keys[i], input)])]

(***************************************************************************)
(* The shell's handling of L2 commands: the inbound record queue.          *)
(***************************************************************************)
\* one command applied to [queue, delivered] for the record at hand
shellL2Command(q, event, record) ==
  CASE event = L2ConnOutputEventQueueInboundRecord ->
         [queue |-> Append(q.queue, record), delivered |-> q.delivered]
    [] event = L2ConnOutputEventProcessInboundQueue ->
         [queue |-> <<>>, delivered |-> q.delivered \o q.queue]
    [] event = L2ConnOutputEventDeliverRecord ->
         [queue |-> q.queue, delivered |-> Append(q.delivered, record)]
    [] OTHER -> q

\* the commands of one returned list applied in order
RECURSIVE shellL2Dispatch(_, _, _)
shellL2Dispatch(q, events, record) ==
  IF events = <<>> THEN q
  ELSE shellL2Dispatch(shellL2Command(q, Head(events).Event, record),
                       Tail(events), record)

(***************************************************************************)
(* The control frames: receiveDilationMsg's decoding loop and the encoders *)
(* genPleaseMsg and genDilationMsg.                                        *)
(***************************************************************************)
\* this many frames are sent to the decoder
MaxFrames == 3

\* a JSON value found under the key "type": a string, or something else
JString(s) == [kind |-> "string", val |-> s]
JNumber == [kind |-> "number", val |-> "7"]
\* the key is not in the object (not in the map)
Absent == [kind |-> "absent", val |-> ""]

\* a map that takes connection-hints for a please
eventMapHintsAsPlease ==
  [t \in {"please", "connection-hints", "reconnect", "reconnecting"} |->
     CASE t = "please" -> ManagerInputEventRxPlease
       [] t = "connection-hints" -> ManagerInputEventRxPlease
       [] t = "reconnect" -> ManagerInputEventRxReconnect
       [] t = "reconnecting" -> ManagerInputEventRxReconnecting]

\* eventMap of receiveDilationMsg
eventMap ==
  [t \in {"please", "connection-hints", "reconnect", "reconnecting"} |->
     CASE t = "please" -> ManagerInputEventRxPlease
       [] t = "connection-hints" -> ManagerInputEventRxHints
       [] t = "reconnect" -> ManagerInputEventRxReconnect
       [] t = "reconnecting" -> ManagerInputEventRxReconnecting]

\* A plaintext handed to the decoder: bytes that are not JSON, or a JSON
\* object with or without the keys "type" and "side".
Frame(json, type, fside) == [json |-> json, type |-> type, side |-> fside]
NotJSON == Frame(FALSE, Absent, NoSide)
\* the sides that received please frames carry
PleaseSides == {[i \in 1..SideLen |-> d] : d \in Digits}
Frames ==
  {NotJSON}
    \cup {Frame(TRUE, t, NoSide) :
            t \in {Absent, JNumber, JString("junk"),
                   JString("connection-hints"), JString("reconnect"),
                   JString("reconnecting")}}
    \cup {Frame(TRUE, JString("please"), s) : s \in PleaseSides}

\* var result map[string]interface{}: nil until the first object is decoded
NilResult == [type |-> Absent, side |-> NoSide]

\* json.Unmarshal(plaintext, &result): an error leaves result as it was; an
\* object sets its own keys in the map result already holds and keeps the
\* other entries
Unmarshal(result, plaintext) ==
  IF ~plaintext.json THEN result
  ELSE [type |-> IF plaintext.type = Absent THEN result.type
                 ELSE plaintext.type,
        side |-> IF plaintext.side = NoSide THEN result.side
                 ELSE plaintext.side]

NoPush == [push |-> FALSE, event |-> 0]
Push(event) == [push |-> TRUE, event |-> event]

\* One iteration of the loop of receiveDilationMsg: the map afterwards, the
\* event sent to d.managerInputEv if any, and whether eventTxt.(string)
\* panicked.
decodeFrame(result, plaintext) ==
  LET r == Unmarshal(result, plaintext) IN
  IF r.type = Absent
  THEN [result |-> r, out |-> NoPush, panic |-> FALSE]
  ELSE IF r.type.kind # "string"
  THEN [result |-> r, out |-> NoPush, panic |-> TRUE]
  ELSE IF r.type.val \in DOMAIN eventMap
  THEN [result |-> r, out |-> Push(eventMap[r.type.val]), panic |-> FALSE]
  ELSE [result |-> r, out |-> NoPush, panic |-> FALSE]

\* A struct field as encoding/json sees it: exported or not (the first
\* letter of its Go name), the key of its tag, its value.
Field(exported, key, value) ==
  [exported |-> exported, key |-> key, value |-> value]

\* json.Marshal of a struct: an object of the exported fields, by tag key
Marshal(fields) ==
  LET seen == {i \in DOMAIN fields : fields[i].exported} IN
  [k \in {fields[i].key : i \in seen} |->
     fields[CHOOSE i \in seen : fields[i].key = k].value]

\* a payload is this many bytes at most, each one of Bytes
MaxPayload == 2
Bytes == {0, 171, 255}
Payloads == UNION {[1..n -> Bytes] : n \in 0..MaxPayload}
\* the phases tried go up to this one
MaxPhase == 11

HexDigits ==
  <<"0", "1", "2", "3", "4", "5", "6", "7",
    "8", "9", "a", "b", "c", "d", "e", "f">>

\* hex.EncodeToString: two lowercase hex digits per byte
RECURSIVE EncodeToString(_)
EncodeToString(payload) ==
  IF payload = <<>> THEN <<>>
  ELSE <<HexDigits[(Head(payload) \div 16) + 1],
         HexDigits[(Head(payload) % 16) + 1]>>
       \o EncodeToString(Tail(payload))

\* fmt.Sprintf("%d", n) for n >= 0: the decimal digits
RECURSIVE Decimal(_)
Decimal(n) ==
  IF n < 10 THEN <<HexDigits[n + 1]>>
  ELSE Decimal(n \div 10) \o <<HexDigits[(n % 10) + 1]>>

\* fmt.Sprintf("dilate-%d", phase)
DilatePhase(phase) == <<"dilate-">> \o Decimal(phase)

\* the struct pleaseMsg{tipe, side}: both fields unexported
pleaseMsg(tipe, fside) ==
  <<Field(FALSE, "type", <<tipe>>), Field(FALSE, "side", fside)>>

\* the struct dilateAddMsg{tipe, phase, body}: all fields unexported
dilateAddMsg(tipe, phase, body) ==
  <<Field(FALSE, "type", <<tipe>>), Field(FALSE, "phase", phase),
    Field(FALSE, "body", body)>>

\* d.genPleaseMsg()
genPleaseMsg(dside) == Marshal(pleaseMsg("please", dside))

\* genDilationMsg(payload, phase)
genDilationMsg(payload, phase) ==
  Marshal(dilateAddMsg("add", DilatePhase(phase), EncodeToString(payload)))

(***************************************************************************)
(* The senders of send.go: SendText, SendFile and SendDirectory. The       *)
(* rendezvous client, the protocol client, the file transport and the      *)
(* record cryptor are called by send.go and defined elsewhere; each call   *)
(* to them is a step that returns nil or an error.                         *)
(***************************************************************************)
MaxChunks == 2      \* the most records a file or a text message is long

\* an error value: its identity (what == compares) and its text (.Error())
Err(id, text) == [id |-> id, text |-> text]
NilErr == Err("nil", "")
errDecryptFailed == Err("errDecryptFailed", "decrypt message failed")
errOfferRejected ==
  Err("errOfferRejected", "TransferError: transfer rejected")
\* what waitFor returns when the receiver rejected the offer
ErrTransferRejected == Err("transferError", "TransferError: transfer rejected")
\* what a call returns once its context is done
ErrCanceled == Err("ctx", "context canceled")
\* any other failure of a call
ErrOther == Err("io", "i/o failure")
\* errors.New(text), fmt.Errorf(text)
ErrNew(text) == Err("new", text)

ErrVerifierRejected ==
  ErrNew("sender rejected verification check, abandoned transfer")

\* SendResult{OK: ok, Error: error}
SendResult(ok, error) == [OK |-> ok, Error |-> error]

\* rendezvous moods
Happy == "happy"
Scary == "scary"
Errory == "errory"

\* the deferred mood of SendTextMsg
textMood(returnErr) ==
  IF returnErr = NilErr THEN Happy
  ELSE IF returnErr = errDecryptFailed THEN Scary
  ELSE Errory

\* the deferred mood of sendFileDirectory
fileMood(returnErr) ==
  IF returnErr = NilErr THEN Happy
  ELSE IF returnErr.text = errOfferRejected.text THEN Happy
  ELSE IF returnErr = errDecryptFailed THEN Scary
  ELSE Errory

\* a result channel: nil, or made, with what was sent through it so far
\* and whether it has been closed
NilResultChan == [made |-> FALSE, sent |-> <<>>, closed |-> FALSE]
MadeResultChan == [made |-> TRUE, sent |-> <<>>, closed |-> FALSE]

\* ch <- r; close(ch)
SendAndClose(c, r) == [c EXCEPT !.sent = Append(@, r), !.closed = TRUE]

\* sendErr(err), on the channel
sendErr(c, err) == SendAndClose(c, SendResult(FALSE, err))

\* the error a rejected verifier ends with, sent as an error message to
\* the peer first: the error of that write if it failed
rejectVerifierHidesWrite(writeErr) == ErrVerifierRejected

rejectVerifier(writeErr) ==
  IF writeErr # NilErr THEN writeErr ELSE ErrVerifierRejected

\* sendFileDirectory writing the transit message before the verifier is
\* shown
FileStepsTransitFirst ==
  <<"WritePake", "ReadPake", "WriteVersion", "ReadVersion", "relayURL",
    "listen", "listenRelay", "makeTransitMsg", "WriteTransit", "Verifier",
    "WriteOffer", "Collect", "waitFor", "acceptConnection", "stream",
    "recordChan", "return", "done">>

\* the calls of the two goroutines, in the order of the source
TextSteps ==
  <<"WritePake", "ReadPake", "WriteVersion", "ReadVersion", "Verifier",
    "WriteOffer", "Collect", "waitFor", "return", "done">>
FileSteps ==
  <<"WritePake", "ReadPake", "WriteVersion", "ReadVersion", "Verifier",
    "relayURL", "listen", "listenRelay", "makeTransitMsg", "WriteTransit",
    "WriteOffer", "Collect", "waitFor", "acceptConnection", "stream",
    "recordChan", "return", "done">>

\* calls on the mailbox: they take the context or wait for the peer
MailboxSteps ==
  {"WritePake", "ReadPake", "WriteVersion", "ReadVersion", "WriteTransit",
   "WriteOffer", "Collect"}
\* calls that need neither
LocalSteps == {"relayURL", "listen", "listenRelay", "makeTransitMsg"}

\* what a successful call writes to the peer
WrittenBy(step) ==
  CASE step = "WritePake" -> <<"pake">>
    [] step = "WriteVersion" -> <<"version">>
    [] step = "WriteTransit" -> <<"transit">>
    [] step = "WriteOffer" -> <<"offer">>
    [] OTHER -> <<>>

\* the error sendErr is given when a local call returned err
Reported(step, err) ==
  CASE step = "relayURL" -> ErrNew("Invalid relay URL")
    [] step = "makeTransitMsg" -> ErrNew("make transit msg error")
    [] OTHER -> err

\* one call of a sender: the function, the client's VerifierOk (nil, or a
\* function that accepts or rejects the verifier), whether a progress
\* function and a log function were given, the number of records (for a
\* text, the length of the message)
Jobs ==
  [fn : {"SendText", "SendFile", "SendDirectory"},
   VerifierOk : {"nil", "true", "false"}, progressFunc : BOOLEAN,
   loggingEnabled : BOOLEAN, size : 1..MaxChunks]
NoJob ==
  [fn |-> "", VerifierOk |-> "nil", progressFunc |-> FALSE,
   loggingEnabled |-> FALSE, size |-> 0]

\* the progress calls of an acknowledged text, were they to report
\* nothing sent
textProgressNothingSent(j) ==
  IF j.progressFunc THEN <<[sent |-> 0, total |-> j.size]>> ELSE <<>>

\* the progress calls of an acknowledged text: one, if a progress
\* function was given, with the length of the message as sent and total
textProgress(j) ==
  IF j.progressFunc THEN <<[sent |-> j.size, total |-> j.size]>> ELSE <<>>

\* the call that follows a successful one: the Verifier block is skipped
\* when c.VerifierOk is nil
After(j, step) ==
  LET s == IF j.fn = "SendText" THEN TextSteps ELSE FileSteps
      i == CHOOSE k \in DOMAIN s : s[k] = step
  IN IF s[i + 1] = "Verifier" /\ j.VerifierOk = "nil"
     THEN s[i + 2] ELSE s[i + 1]

\* what a call on the mailbox can return
MailboxErrors(done) ==
  IF done THEN {ErrCanceled} ELSE {NilErr, ErrOther, errDecryptFailed}

\* What the final readRecord returns: an error (err), or a record that is
\* JSON or not (json) and, unmarshalled, holds Ack and SHA256. A SHA-256 is
\* written as the number of records of the source it is the hash of (sum)
\* and the case of its hex digits (upper).
AckRecords ==
  {[err |-> e, json |-> FALSE, Ack |-> "",
    SHA256 |-> [sum |-> 0, upper |-> FALSE]] : e \in BOOLEAN}
  \cup [err : {FALSE}, json : {TRUE}, Ack : {"ok", "no"},
        SHA256 : [sum : 0..MaxChunks, upper : BOOLEAN]]

(***************************************************************************)
(* State: the fields of one engine (dilationProtocol), the last call made  *)
(* on it with what it returned, the shell's record queue, and the peer.    *)
(***************************************************************************)
VARIABLES
  side,            \* d.side
  role,            \* d.role
  managerState,    \* d.managerState
  connectorState,  \* d.connectorState
  l2ConnState,     \* d.l2ConnState
  call,            \* the last call: [fn, arg, from], from being the state
                   \* the called machine was in (what its log line prints)
  ret,             \* what it returned: [codes, events, err]
  winners,         \* candidates of the SelectAndStopRemaining commands of
                   \* connectorStateMachine so far, in order
  selected,        \* candidates whose Select moved the L2 to Selected
  inbound,         \* shell: [seen, arrived, queue, delivered]
  peer,            \* the other end: [side, role]
  chose,           \* the ends that have run chooseRole with the other's side
  closing,         \* shell: an AbandonConnection command has been returned
                   \* and no connection-lost event has been fed since
  sent,            \* how many SendPlease, ChooseRole and NotifyStopped
                   \* commands the manager has returned so far, and how
                   \* many connection attempts are running (those it
                   \* started less those it stopped or saw made):
                   \* [please, chooseRole, notifyStopped, attempts]
  msgInput,        \* d.msgInput: nil, or the plaintexts sent through it
  managerInputEv,  \* d.managerInputEv: nil, or the events sent through it,
                   \* each with the number of the frame it was sent for
  result,          \* the map the decoding loop unmarshals into
  panicked,        \* the decoding goroutine has panicked
  taken,           \* how many events were received from d.managerInputEv
  encoded,         \* the last encoder call and the object it returned
  job,             \* the call of a sender and its options
  sender,          \* the sender's goroutine: [pc, err, returnErr, progress,
                   \* verified], verified being what c.VerifierOk returned
  ch,              \* the result channel the goroutine writes to
  retCh,           \* SendDirectory: what was sent through the channel it
                   \* returns
  rc,              \* the moods of the rc.Close calls so far
  peerMsgs,        \* what was written to the peer so far, in order
  progressCalls,   \* the calls of options.progressFunc: [sent, total]
  ctx,             \* the context: [done, at], at being where the
                   \* goroutine was when it was cancelled
  conn,            \* the transit connection: "nil", "open" or "closed"
  recordChan,      \* recordChan: [ready, rec], what the reading goroutine
                   \* is sending
  goroutines,      \* two goroutines calling managerStateMachine, each
                   \* [pc, event, currState, outputEvents]
  startState       \* d.managerState when the first of their calls began

\* the variables of the frame decoder and encoders
codecVars == <<msgInput, managerInputEv, result, panicked, taken, encoded>>

\* the variables of the senders
sendVars ==
  <<job, sender, ch, retCh, rc, peerMsgs, progressCalls, ctx, conn,
    recordChan>>

\* the variables of two concurrent calls of managerStateMachine
concVars == <<goroutines, startState>>

vars ==
  <<side, role, managerState, connectorState, l2ConnState, call, ret,
    winners, selected, inbound, peer, chose, closing, sent, codecVars,
    sendVars, concVars>>

\* a channel: nil, or made and with what was sent through it so far
NilChan == [made |-> FALSE, sent |-> <<>>]
MadeChan == [made |-> TRUE, sent |-> <<>>]

NoPeer == [side |-> NoSide, role |-> NoRole]

\* no sender has been called; calls is the history of the calls that
\* returned nil, in the order they returned, hasher the number of records
\* written to the hasher
NoSender == [pc |-> "idle", err |-> NilErr, returnErr |-> NilErr,
             progress |-> 0, verified |-> "", calls |-> <<>>,
             hasher |-> 0]

Return(codes, events, err) ==
  [codes |-> codes, events |-> events, err |-> err]

\* InitDilation: a fresh side, the manager Waiting, every other field zero
InitDilation ==
  /\ side \in Sides
  /\ role = NoRole
  /\ managerState = ManagerStateWaiting
  /\ connectorState = NoConnectorState
  /\ l2ConnState = NoL2ConnState
  /\ msgInput = NilChan
  /\ managerInputEv = NilChan

\* nothing called yet, nothing received by the shell
InitShell ==
  /\ call = [fn |-> "InitDilation", arg |-> <<>>, from |-> ""]
  /\ ret = Return(<<>>, <<>>, FALSE)
  /\ winners = <<>>
  /\ selected = {}
  /\ inbound = [seen |-> 0, arrived |-> <<>>, queue |-> <<>>,
                delivered |-> <<>>]
  /\ chose = {}
  /\ closing = FALSE
  /\ sent = [please |-> 0, chooseRole |-> 0, notifyStopped |-> 0,
             attempts |-> 0]
  /\ result = NilResult
  /\ panicked = FALSE
  /\ taken = 0
  /\ encoded = [fn |-> "", payload |-> <<>>, phase |-> 0, out |-> <<>>]
  /\ job = NoJob
  /\ sender = NoSender
  /\ ch = NilResultChan
  /\ retCh = <<>>
  /\ rc = <<>>
  /\ peerMsgs = <<>>
  /\ progressCalls = <<>>
  /\ ctx = [done |-> FALSE, at |-> ""]
  /\ conn = "nil"
  /\ recordChan =
       [ready |-> FALSE,
        rec |-> [err |-> FALSE, json |-> FALSE, Ack |-> "",
                 SHA256 |-> [sum |-> 0, upper |-> FALSE]]]
  /\ goroutines = [g \in 1..2 |->
                    [pc |-> "idle", event |-> 0, currState |-> "",
                     outputEvents |-> <<>>]]
  /\ startState = ManagerStateWaiting

Init ==
  /\ InitDilation
  /\ InitShell
  /\ peer = NoPeer

\* the number of commands of a returned slice that are the given one
Count(out, command) ==
  Cardinality({i \in DOMAIN out : out[i] = command})

\* a counter of returned commands, kept up to MaxSent
Tally(n, out, command) ==
  IF n + Count(out, command) > MaxSent THEN MaxSent
  ELSE n + Count(out, command)

\* the connection attempts running after a step of the Manager: one more
\* for each StartConnecting or StartConnectingIgnoreMsg it returned, one
\* less for each StopConnecting and for a ConnectionMade it took in
\* Connecting; kept within MaxSent of zero
Running(n, event, currState, out) ==
  LET started == Count(out, ManagerOutputEventStartConnecting)
                   + Count(out, ManagerOutputEventStartConnectingIgnoreMsg)
      stopped == Count(out, ManagerOutputEventStopConnecting)
      made == IF event = ManagerInputEventConnectionMade
                 /\ currState = ManagerStateConnecting THEN 1 ELSE 0
      m == n + started - stopped - made
  IN IF m > MaxSent THEN MaxSent
     ELSE IF m < 0 - MaxSent THEN 0 - MaxSent
     ELSE m

\* a Manager step that also puts the Connector back to Connecting when it
\* returns StartConnecting
ManagerCallRestartsConnector(event) ==
  LET r == managerStateMachine(managerState, event) IN
  /\ managerState' = r.state
  /\ call' = [fn |-> "managerStateMachine", arg |-> event,
              from |-> managerState]
  /\ ret' = Return(r.out, <<>>, FALSE)
  /\ closing' =
       IF Count(r.out, ManagerOutputEventAbandonConnection) > 0 THEN TRUE
       ELSE IF event \in ConnectionLostEvents THEN FALSE
       ELSE closing
  /\ sent' =
       [please |-> Tally(sent.please, r.out, ManagerOutputEventSendPlease),
        chooseRole |->
          Tally(sent.chooseRole, r.out, ManagerOutputEventChooseRole),
        notifyStopped |->
          Tally(sent.notifyStopped, r.out, ManagerOutputEventNotifyStopped),
        attempts |-> Running(sent.attempts, event, managerState, r.out)]
  /\ connectorState' =
       IF Count(r.out, ManagerOutputEventStartConnecting) > 0
       THEN ConnectorStateConnecting ELSE connectorState
  /\ UNCHANGED <<side, role, l2ConnState, winners, selected, inbound, peer,
                 chose>>

\* d.managerStateMachine(event); the shell notes the commands it is handed
ManagerCall(event) ==
  LET r == managerStateMachine(managerState, event) IN
  /\ managerState' = r.state
  /\ call' = [fn |-> "managerStateMachine", arg |-> event,
              from |-> managerState]
  /\ ret' = Return(r.out, <<>>, FALSE)
  /\ closing' =
       IF Count(r.out, ManagerOutputEventAbandonConnection) > 0 THEN TRUE
       ELSE IF event \in ConnectionLostEvents THEN FALSE
       ELSE closing
  /\ sent' =
       [please |-> Tally(sent.please, r.out, ManagerOutputEventSendPlease),
        chooseRole |->
          Tally(sent.chooseRole, r.out, ManagerOutputEventChooseRole),
        notifyStopped |->
          Tally(sent.notifyStopped, r.out, ManagerOutputEventNotifyStopped),
        attempts |-> Running(sent.attempts, event, managerState, r.out)]
  /\ UNCHANGED <<side, role, connectorState, l2ConnState, winners, selected,
                 inbound, peer, chose>>

\* d.managerStateMachine(event) called by the shell directly
ManagerEvent(event) ==
  /\ ManagerCall(event)
  /\ UNCHANGED <<codecVars, sendVars, concVars>>

\* d.chooseRole(other)
ChooseRole(other) ==
  LET r == chooseRole(side, role, other) IN
  /\ role' = r.role
  /\ call' = [fn |-> "chooseRole", arg |-> other, from |-> role]
  /\ ret' = Return(<<>>, <<>>, r.err)
  /\ chose' = IF other = peer.side THEN chose \cup {"local"} ELSE chose
  /\ UNCHANGED <<side, managerState, connectorState, l2ConnState, winners,
                 selected, inbound, peer, closing, sent, codecVars,
                 sendVars, concVars>>

\* d.processConnectorStateMachine(input), connectorStateMachine within it
ConnectorEvent(input) ==
  LET r == processConnectorStateMachine(connectorState, input) IN
  /\ connectorState' = r.state
  /\ call' = [fn |-> "processConnectorStateMachine", arg |-> input,
              from |-> connectorState]
  /\ ret' = Return(r.codes, r.events, FALSE)
  /\ winners' =
       winners \o
         SelectSeq([i \in DOMAIN r.codes |->
                      IF r.codes[i] = ConnectorOutputEventSelectAndStopRemaining
                      THEN input.candidate ELSE "-"],
                   LAMBDA c : c # "-")
  /\ UNCHANGED <<side, role, managerState, l2ConnState, selected, inbound,
                 peer, chose, closing, sent, codecVars,
                 sendVars, concVars>>

\* d.processL2ConnStateMachine(input), l2ConnStateMachine within it, and the
\* shell acting on the returned commands; a GotRecord is the next record
L2Event(input) ==
  LET r == processL2ConnStateMachine(l2ConnState, input)
      isRecord == input.Event = L2ConnInputEventGotRecord
      record == inbound.seen + 1
      q == shellL2Dispatch([queue |-> inbound.queue,
                            delivered |-> inbound.delivered],
                           r.events, record)
  IN
  /\ isRecord => inbound.seen < MaxRecords
  /\ l2ConnState' = r.state
  /\ call' = [fn |-> "processL2ConnStateMachine", arg |-> input,
              from |-> l2ConnState]
  /\ ret' = Return(r.codes, r.events, FALSE)
  /\ selected' =
       IF /\ input.Event = L2ConnInputEventSelect
          /\ r.state = L2ConnStateSelected
          /\ r.codes # <<>>
       THEN selected \cup {input.candidate}
       ELSE selected
  /\ inbound' =
       [seen |-> IF isRecord THEN record ELSE inbound.seen,
        arrived |-> IF isRecord /\ l2ConnState = L2ConnStateSelecting
                    THEN Append(inbound.arrived, record)
                    ELSE inbound.arrived,
        queue |-> q.queue,
        delivered |-> q.delivered]
  /\ UNCHANGED <<side, role, managerState, connectorState, winners, peer,
                 chose, closing, sent, codecVars,
                 sendVars, concVars>>

\* the peer engine runs chooseRole with this engine's side
PeerChooseRole ==
  /\ peer.side # NoSide
  /\ peer' = [peer EXCEPT !.role = chooseRole(peer.side, peer.role, side).role]
  /\ call' = [fn |-> "peer.chooseRole", arg |-> side, from |-> peer.role]
  /\ ret' = Return(<<>>, <<>>, chooseRole(peer.side, peer.role, side).err)
  /\ chose' = chose \cup {"peer"}
  /\ UNCHANGED <<side, role, managerState, connectorState, l2ConnState,
                 winners, selected, inbound, closing, sent, codecVars,
                 sendVars, concVars>>

\* every method of the engine, called in any order with any argument
Next ==
  \/ \E event \in ManagerInputEvents : ManagerEvent(event)
  \/ \E other \in OtherSides : ChooseRole(other)
  \/ \E input \in ConnectorInputEventS : ConnectorEvent(input)
  \/ \E input \in L2ConnInputEventS : L2Event(input)

Spec == Init /\ [][Next]_vars

\* Two engines, each created by InitDilation, that receive each other's
\* please and run chooseRole with the side it carries.
InitElection ==
  /\ InitDilation
  /\ InitShell
  /\ peer \in [side : Sides, role : {NoRole}]

NextElection ==
  \/ ChooseRole(peer.side)
  \/ PeerChooseRole

SpecElection == InitElection /\ [][NextElection]_vars

\* An engine whose Connector and L2 fields hold the initial states of their
\* machines (Connecting and Unselected), fed Connector and L2 events in any
\* interleaving. The side plays no part in it and is the all-zero one.
InitRace ==
  /\ side = [i \in 1..SideLen |-> 0]
  /\ role = NoRole
  /\ managerState = ManagerStateWaiting
  /\ connectorState = ConnectorStateConnecting
  /\ l2ConnState = L2ConnStateUnselected
  /\ msgInput = NilChan
  /\ managerInputEv = NilChan
  /\ InitShell
  /\ peer = NoPeer

NextRace ==
  \/ \E input \in ConnectorInputEventS : ConnectorEvent(input)
  \/ \E input \in L2ConnInputEventS : L2Event(input)

SpecRace == InitRace /\ [][NextRace]_vars

\* A Manager event as the shell feeds it during connection attempts:
\* ConnectionMade is generated by the Connector, once it has a winner.
AttemptManagerEvent(event) ==
  /\ event = ManagerInputEventConnectionMade =>
       connectorState = ConnectorStateConnected
  /\ ManagerEvent(event)

NextAttempts ==
  \/ \E event \in ManagerInputEvents : AttemptManagerEvent(event)
  \/ \E input \in ConnectorInputEventS : ConnectorEvent(input)

\* An engine whose Connector holds Connecting, taken through connection
\* attempts: Manager and Connector events in any interleaving.
SpecAttempts == InitRace /\ [][NextAttempts]_vars

\* The three machines of one engine stepped in any interleaving, with
\* chooseRole between the steps. The payloads of the Connector and L2
\* inputs play no part in it and are left empty; no records arrive.
NextMachines ==
  \/ \E event \in ManagerInputEvents : ManagerEvent(event)
  \/ \E other \in Sides : ChooseRole(other)
  \/ \E input \in ConnectorInputEventS :
       /\ input.hints = NoHints
       /\ input.candidate = NoCandidate
       /\ ConnectorEvent(input)
  \/ \E input \in L2ConnInputEventS :
       /\ input.Event # L2ConnInputEventGotRecord
       /\ input.candidate = NoCandidate
       /\ L2Event(input)

SpecMachines == InitRace /\ [][NextMachines]_vars

\* The shell's part in a shutdown: after each AbandonConnection it closes the
\* connection and then feeds one of the two connection-lost events.
ReportConnectionLost ==
  /\ closing
  /\ \E event \in ConnectionLostEvents : ManagerEvent(event)

NextShutdown == \E event \in ManagerInputEvents : ManagerEvent(event)

\* A fresh engine fed Manager events in any order, the shell never leaving
\* the loss of an abandoned connection unreported.
SpecShutdown ==
  Init /\ [][NextShutdown]_vars /\ WF_vars(ReportConnectionLost)

\* the variables of the engine and of the shell around its machines
engineVars ==
  <<side, role, managerState, connectorState, l2ConnState, call, ret,
    winners, selected, inbound, peer, chose, closing, sent>>

\* One iteration of the loop of receiveDilationMsg: a plaintext is received
\* from d.msgInput, unmarshalled, and its event, if any, sent to
\* d.managerInputEv. On nil channels the goroutine blocks for ever.
ReceiveFrame(plaintext) ==
  LET r == decodeFrame(result, plaintext)
      n == Len(msgInput.sent) + 1
  IN
  /\ msgInput.made
  /\ managerInputEv.made
  /\ ~panicked
  /\ n <= MaxFrames
  /\ msgInput' = [msgInput EXCEPT !.sent = Append(@, plaintext)]
  /\ result' = r.result
  /\ panicked' = r.panic
  /\ managerInputEv' =
       IF r.out.push
       THEN [managerInputEv EXCEPT
               !.sent = Append(@, [frame |-> n, event |-> r.out.event])]
       ELSE managerInputEv
  /\ UNCHANGED <<engineVars, sendVars, concVars, taken, encoded>>

\* The Manager's loop receives the next event from d.managerInputEv and
\* steps the machine with it.
TakeEvent ==
  /\ ~panicked
  /\ taken < Len(managerInputEv.sent)
  /\ ManagerCall(managerInputEv.sent[taken + 1].event)
  /\ taken' = taken + 1
  /\ UNCHANGED <<msgInput, managerInputEv, result, panicked, encoded,
                 sendVars, concVars>>

\* d.genPleaseMsg()
GenPleaseMsg ==
  /\ encoded' = [fn |-> "genPleaseMsg", payload |-> <<>>, phase |-> 0,
                 out |-> genPleaseMsg(side)]
  /\ UNCHANGED <<engineVars, sendVars, concVars, msgInput, managerInputEv,
                 result, panicked, taken>>

\* genDilationMsg(payload, phase)
GenDilationMsg(payload, phase) ==
  /\ encoded' = [fn |-> "genDilationMsg", payload |-> payload,
                 phase |-> phase, out |-> genDilationMsg(payload, phase)]
  /\ UNCHANGED <<engineVars, sendVars, concVars, msgInput, managerInputEv,
                 result, panicked, taken>>

\* An engine whose two channels have been made, its decoding goroutine
\* running: frames arrive, the Manager is started and takes the events.
InitDecoder ==
  /\ side = [i \in 1..SideLen |-> 0]
  /\ role = NoRole
  /\ managerState = ManagerStateWaiting
  /\ connectorState = NoConnectorState
  /\ l2ConnState = NoL2ConnState
  /\ msgInput = MadeChan
  /\ managerInputEv = MadeChan
  /\ InitShell
  /\ peer = NoPeer

NextDecoder ==
  \/ \E plaintext \in Frames : ReceiveFrame(plaintext)
  \/ TakeEvent
  \/ ManagerEvent(ManagerInputEventStart)

SpecDecoder == InitDecoder /\ [][NextDecoder]_vars

\* The encoders called on a fresh engine with any payload and phase.
NextEncoders ==
  \/ GenPleaseMsg
  \/ \E payload \in Payloads, phase \in 0..MaxPhase :
       GenDilationMsg(payload, phase)

SpecEncoders == Init /\ [][NextEncoders]_vars

\* The shell as the Manager's commands ask of it: handed ChooseRole, it runs
\* d.chooseRole with the side of the peer's please before it feeds the next
\* event.
NextShell ==
  \/ \E event \in ManagerInputEvents :
       /\ ~(/\ call.fn = "managerStateMachine"
            /\ Count(ret.codes, ManagerOutputEventChooseRole) > 0)
       /\ ManagerEvent(event)
  \/ \E other \in OtherSides :
       /\ call.fn = "managerStateMachine"
       /\ Count(ret.codes, ManagerOutputEventChooseRole) > 0
       /\ ChooseRole(other)

SpecShell == Init /\ [][NextShell]_vars

(***************************************************************************)
(* Two goroutines calling managerStateMachine. A call reads d.managerState *)
(* into currState without the lock (currState = d.managerState) and, in    *)
(* the branches that move, writes the new state under it                   *)
(* (managerToNewState); the other goroutine may run between the two.       *)
(***************************************************************************)
\* what a read of d.managerState that races with a write may see besides
\* the old and the new value: a string that is neither (a string is a
\* pointer and a length, written one after the other)
Torn == "torn"

\* goroutine g calls managerStateMachine(event) and reads d.managerState:
\* it sees the state, or a torn one while the other goroutine is about to
\* write a new one
ReadState(g, event, seen) ==
  LET o == goroutines[3 - g]
      writing ==
        /\ o.pc = "switch"
        /\ managerStateMachine(o.currState, o.event).state # o.currState
  IN
  /\ goroutines[g].pc = "idle"
  /\ seen \in {managerState} \cup (IF writing THEN {Torn} ELSE {})
  /\ goroutines' = [goroutines EXCEPT
                      ![g] = [pc |-> "switch", event |-> event,
                              currState |-> seen, outputEvents |-> <<>>]]
  /\ startState' = IF goroutines[3 - g].pc = "idle" THEN managerState
                   ELSE startState
  /\ UNCHANGED <<engineVars, codecVars, sendVars>>

\* goroutine g runs the switch on its event and currState, writes the new
\* state if the branch moves, and returns its output events
WriteState(g) ==
  LET r == managerStateMachine(goroutines[g].currState, goroutines[g].event)
  IN
  /\ goroutines[g].pc = "switch"
  /\ managerState' = IF r.state # goroutines[g].currState THEN r.state
                     ELSE managerState
  /\ goroutines' = [goroutines EXCEPT
                      ![g] = [@ EXCEPT !.pc = "returned",
                                       !.outputEvents = r.out]]
  /\ UNCHANGED <<side, role, connectorState, l2ConnState, call, ret,
                 winners, selected, inbound, peer, chose, closing, sent,
                 startState, codecVars, sendVars>>

\* both calls have returned; the goroutines are free to call again
Rejoin ==
  /\ \A g \in 1..2 : goroutines[g].pc = "returned"
  /\ goroutines' = [g \in 1..2 |->
                     [pc |-> "idle", event |-> 0, currState |-> "",
                      outputEvents |-> <<>>]]
  /\ UNCHANGED <<startState, engineVars, codecVars, sendVars>>

NextConcurrent ==
  \/ \E g \in 1..2, event \in ManagerInputEvents,
        seen \in ManagerStates \cup {Torn} : ReadState(g, event, seen)
  \/ \E g \in 1..2 : WriteState(g)
  \/ Rejoin

SpecConcurrent == Init /\ [][NextConcurrent]_vars

(***************************************************************************)
(* The senders. Send is the synchronous part of SendText, SendFile or      *)
(* SendDirectory; the other actions are the steps of the goroutine it      *)
(* starts and of the goroutines that one starts.                           *)
(***************************************************************************)
\* a step of the sender's goroutine: its locals, the result channel, what
\* was written to the peer and the progress calls; nothing else changes
Goroutine(s, c, w, p) ==
  /\ sender' = s
  /\ ch' = c
  /\ peerMsgs' = peerMsgs \o w
  /\ progressCalls' = progressCalls \o p
  /\ UNCHANGED <<job, retCh, rc, ctx, recordChan, engineVars, codecVars,
                 concVars>>

\* a call returned nil: on to the next one
Proceed(step, w) ==
  Goroutine([sender EXCEPT !.pc = After(job, step), !.err = NilErr,
                           !.calls = Append(@, step)],
            ch, w, <<>>)

\* a call returned err: sendErr(reported); return
Fail(err, reported) ==
  Goroutine([sender EXCEPT !.pc = "return", !.err = err,
                           !.returnErr = reported],
            sendErr(ch, reported), <<>>, <<>>)

\* SendText, SendFile, SendDirectory: the options, the mailbox (and the zip
\* file or the size of the file) are prepared; on an error no channel is
\* returned, otherwise the goroutine is started and its channel returned.
Send(j, ok) ==
  /\ sender.pc = "idle"
  /\ job' = j
  /\ sender' = [sender EXCEPT !.pc = IF ok THEN "WritePake" ELSE "refused"]
  /\ ch' = IF ok THEN MadeResultChan ELSE NilResultChan
  /\ UNCHANGED <<retCh, rc, peerMsgs, progressCalls, ctx, conn, recordChan,
                 engineVars, codecVars,
                 concVars>>

\* the caller cancels the context of a send that has not ended
Cancel ==
  /\ sender.pc \notin {"idle", "refused", "done", "crashed"}
  /\ ~ctx.done
  /\ ctx' = [done |-> TRUE, at |-> sender.pc]
  /\ UNCHANGED <<job, sender, ch, retCh, rc, peerMsgs, progressCalls, conn,
                 recordChan, engineVars, codecVars,
                 concVars>>

\* WritePake, ReadPake, WriteVersion, ReadVersion, WriteAppData of the
\* transit message and of the offer, Collect
MailboxCall(step, err) ==
  /\ sender.pc = step
  /\ step \in MailboxSteps
  /\ err \in MailboxErrors(ctx.done)
  /\ IF err = NilErr THEN Proceed(step, WrittenBy(step))
     ELSE Fail(err, err)
  /\ UNCHANGED conn

\* relayURL, listen, listenRelay, makeTransitMsg
LocalCall(step, err) ==
  /\ sender.pc = step
  /\ step \in LocalSteps
  /\ err \in {NilErr, ErrOther}
  /\ IF err = NilErr THEN Proceed(step, <<>>)
     ELSE Fail(err, Reported(step, err))
  /\ UNCHANGED conn

\* the block of c.VerifierOk: the verifier is computed and shown; when it
\* is rejected an error message is written to the peer and the send ends
Verifier(err, writeErr) ==
  /\ sender.pc = "Verifier"
  /\ err \in {NilErr, ErrOther}
  /\ writeErr \in MailboxErrors(ctx.done)
  /\ IF err # NilErr
     THEN Goroutine([sender EXCEPT !.pc = "return", !.returnErr = err],
                    sendErr(ch, err), <<>>, <<>>)
     ELSE IF job.VerifierOk = "true"
     THEN Goroutine([sender EXCEPT !.pc = After(job, "Verifier"),
                                   !.verified = "true",
                                   !.calls = Append(@, "Verifier")],
                    ch, <<>>, <<>>)
     ELSE Goroutine([sender EXCEPT !.pc = "return", !.verified = "false",
                                   !.returnErr = rejectVerifier(writeErr)],
                    sendErr(ch, rejectVerifier(writeErr)),
                    IF writeErr = NilErr THEN <<"error">> ELSE <<>>, <<>>)
  /\ UNCHANGED conn

\* collector.waitFor(&answer) and the test of the answer. A text that was
\* acknowledged is reported to the progress function and the send has
\* succeeded; a file that was acknowledged is sent next.
WaitFor(err, answer) ==
  /\ sender.pc = "waitFor"
  /\ err \in MailboxErrors(ctx.done) \cup {ErrTransferRejected}
  /\ answer \in {"ok", "no"}
  /\ IF err # NilErr THEN Fail(err, err)
     ELSE IF answer # "ok" THEN Fail(NilErr, ErrNew("unexpected answer"))
     ELSE IF job.fn = "SendText"
     THEN Goroutine([sender EXCEPT !.pc = "return", !.err = NilErr],
                    SendAndClose(ch, SendResult(TRUE, NilErr)), <<>>,
                    textProgress(job))
     ELSE Proceed("waitFor", <<>>)
  /\ UNCHANGED conn

\* transport.acceptConnection(ctx) and the log line after it, which reads
\* the addresses of conn before err is looked at: with a log function and
\* no connection the goroutine panics.
AcceptConnection(err) ==
  /\ sender.pc = "acceptConnection"
  /\ err \in MailboxErrors(ctx.done)
  /\ IF err = NilErr
     THEN /\ Proceed("acceptConnection", <<>>)
          /\ conn' = "open"
     ELSE IF job.loggingEnabled
     THEN /\ Goroutine([sender EXCEPT !.pc = "panic", !.err = err],
                       ch, <<>>, <<>>)
          /\ UNCHANGED conn
     ELSE /\ Fail(err, err)
          /\ UNCHANGED conn

\* go func() { <-ctx.Done(); conn.Close() }()
CloseOnDone ==
  /\ ctx.done
  /\ conn = "open"
  /\ conn' = "closed"
  /\ UNCHANGED <<job, sender, ch, retCh, rc, peerMsgs, progressCalls, ctx,
                 recordChan, engineVars, codecVars,
                 concVars>>

\* The reading goroutine: cryptor.readRecord() returns the final record or
\* an error, which waits in recordChan for the sender.
ReadRecord(rec) ==
  /\ conn # "nil"
  /\ ~recordChan.ready
  /\ rec \in AckRecords
  /\ conn = "closed" => rec.err
  /\ recordChan' = [ready |-> TRUE, rec |-> rec]
  /\ UNCHANGED <<job, sender, ch, retCh, rc, peerMsgs, progressCalls, ctx,
                 conn, engineVars, codecVars,
                 concVars>>

\* One turn of the sending loop: r.Read returns the next record, io.EOF or
\* an error (readErr); a record is written with cryptor.writeRecord
\* (writeErr) and reported to the progress function.
StreamRecord(readErr, writeErr) ==
  /\ sender.pc = "stream"
  /\ readErr \in {NilErr, ErrOther}
  /\ writeErr \in {NilErr, ErrOther}
  /\ conn = "closed" => writeErr # NilErr
  /\ IF readErr # NilErr
     THEN Goroutine([sender EXCEPT !.pc = "return", !.returnErr = readErr],
                    sendErr(ch, readErr), <<>>, <<>>)
     ELSE IF sender.progress = job.size
     THEN Goroutine([sender EXCEPT !.pc = "recordChan"], ch, <<>>, <<>>)
     ELSE IF writeErr # NilErr
     THEN Goroutine([sender EXCEPT !.pc = "return",
                                   !.returnErr = writeErr,
                                   !.hasher = @ + 1],
                    sendErr(ch, writeErr), <<>>, <<>>)
     ELSE Goroutine([sender EXCEPT !.progress = @ + 1,
                                   !.hasher = @ + 1,
                                   !.calls = Append(@, "writeRecord")],
                    ch, <<"record">>,
                    IF job.progressFunc
                    THEN <<[sent |-> sender.progress + 1,
                            total |-> job.size]>>
                    ELSE <<>>)
  /\ UNCHANGED conn

\* the final record accepted on its ack alone, the sha256 not compared
ReceiveAckUnhashed ==
  LET ack == recordChan.rec IN
  /\ sender.pc = "recordChan"
  /\ recordChan.ready
  /\ IF ack.err THEN Fail(sender.err, sender.err)
     ELSE IF ~ack.json
     THEN Fail(Err("json", "invalid character"),
               Err("json", "invalid character"))
     ELSE IF ack.Ack # "ok"
     THEN Fail(NilErr, ErrNew("got non ok final ack from receiver"))
     ELSE Goroutine([sender EXCEPT !.pc = "return", !.err = NilErr],
                    SendAndClose(ch, SendResult(TRUE, NilErr)),
                    <<>>, <<>>)
  /\ UNCHANGED conn

\* recOrErr := <-recordChan and what follows: on recOrErr.err the sender
\* calls sendErr(err) with its own err, the one acceptConnection assigned
\* last; the record is unmarshalled and its ack and sha256 are tested.
ReceiveAck ==
  LET ack == recordChan.rec
      shaSum == [sum |-> sender.hasher, upper |-> FALSE]
  IN
  /\ sender.pc = "recordChan"
  /\ recordChan.ready
  /\ IF ack.err THEN Fail(sender.err, sender.err)
     ELSE IF ~ack.json
     THEN Fail(Err("json", "invalid character"),
               Err("json", "invalid character"))
     ELSE IF ack.Ack # "ok"
     THEN Fail(NilErr, ErrNew("got non ok final ack from receiver"))
     ELSE IF [ack.SHA256 EXCEPT !.upper = FALSE] # shaSum
     THEN Fail(NilErr, ErrNew("receiver sha256 mismatch"))
     ELSE Goroutine([sender EXCEPT !.pc = "return", !.err = NilErr],
                    SendAndClose(ch, SendResult(TRUE, NilErr)),
                    <<>>, <<>>)
  /\ UNCHANGED conn

\* The deferred function of the goroutine, run when it returns or panics:
\* rc.Close(ctx, mood), the mood chosen from returnErr.
RunDeferred ==
  /\ sender.pc \in {"return", "panic"}
  /\ rc' = Append(rc, IF job.fn = "SendText" THEN textMood(sender.returnErr)
                      ELSE fileMood(sender.returnErr))
  /\ sender' = [sender EXCEPT
                  !.pc = IF sender.pc = "return" THEN "done" ELSE "crashed"]
  /\ UNCHANGED <<job, ch, retCh, peerMsgs, progressCalls, ctx, conn,
                 recordChan, engineVars, codecVars,
                 concVars>>

\* The goroutine of SendDirectory: it receives the result of
\* sendFileDirectory, closes the zip file and sends the result on.
Forward ==
  /\ job.fn = "SendDirectory"
  /\ ch.sent # <<>>
  /\ retCh = <<>>
  /\ retCh' = <<ch.sent[1]>>
  /\ UNCHANGED <<job, sender, ch, rc, peerMsgs, progressCalls, ctx, conn,
                 recordChan, engineVars, codecVars,
                 concVars>>

NextSend ==
  \/ \E j \in Jobs, ok \in BOOLEAN : Send(j, ok)
  \/ Cancel
  \/ \E step \in MailboxSteps, err \in MailboxErrors(ctx.done) :
       MailboxCall(step, err)
  \/ \E step \in LocalSteps, err \in {NilErr, ErrOther} :
       LocalCall(step, err)
  \/ \E err \in {NilErr, ErrOther}, writeErr \in MailboxErrors(ctx.done) :
       Verifier(err, writeErr)
  \/ \E err \in MailboxErrors(ctx.done) \cup {ErrTransferRejected},
        answer \in {"ok", "no"} : WaitFor(err, answer)
  \/ \E err \in MailboxErrors(ctx.done) : AcceptConnection(err)
  \/ CloseOnDone
  \/ \E rec \in AckRecords : ReadRecord(rec)
  \/ \E readErr \in {NilErr, ErrOther}, writeErr \in {NilErr, ErrOther} :
       StreamRecord(readErr, writeErr)
  \/ ReceiveAck
  \/ RunDeferred
  \/ Forward

SpecSend == Init /\ [][NextSend]_vars


(***************************************************************************)
(* Properties of the Manager and of role election.                         *)
(***************************************************************************)
IsManagerStep == call.fn = "managerStateMachine"
IsConnectorStep == call.fn = "processConnectorStateMachine"
IsL2Step == call.fn = "processL2ConnStateMachine"

\* the elements of a sequence
Range(seq) == {seq[i] : i \in DOMAIN seq}

\* C1: once managerState is Stopped it stays Stopped: no later call changes
\* it, and every later managerStateMachine returns no output commands.
StoppedIsAbsorbing ==
  [][managerState = ManagerStateStopped =>
       /\ managerState' = ManagerStateStopped
       /\ (call'.fn = "managerStateMachine" => ret'.codes = <<>>)]_vars

\* C1 witness: a Stop event fed to a manager that was already Stopped
StoppedFedAgain ==
  /\ IsManagerStep
  /\ call.arg = ManagerInputEventStop
  /\ call.from = ManagerStateStopped
  /\ managerState = ManagerStateStopped

\* C2: a step that enters Connected is managerStateMachine(ConnectionMade)
\* taken in Connecting; no other (state, event) pair enters Connected.
ConnectedOnlyByConnectionMade ==
  [][(managerState' = ManagerStateConnected
        /\ managerState # ManagerStateConnected) =>
       /\ call'.fn = "managerStateMachine"
       /\ call'.arg = ManagerInputEventConnectionMade
       /\ managerState = ManagerStateConnecting]_vars

\* C2 witness: Connected has just been entered
ConnectedEntered ==
  /\ IsManagerStep
  /\ managerState = ManagerStateConnected
  /\ call.from # ManagerStateConnected

\* C3: once role is Leader or Follower no later call changes it.
RoleNeverRevised ==
  [][role # NoRole => role' = role]_vars

\* the value of a side read as a number whose digits are Digits
RECURSIVE SideValue(_)
SideValue(s) ==
  IF s = <<>> THEN 0
  ELSE SideValue(SubSeq(s, 1, Len(s) - 1)) * Cardinality(Digits) + s[Len(s)]

\* each end has run chooseRole with the other end's side
BothChose == chose = {"local", "peer"}

\* C4: two engines with distinct sides that have each run chooseRole with the
\* other's side: the one with the greater side is Leader, the other Follower.
ElectionAgrees ==
  (BothChose /\ side # peer.side) =>
    /\ (SideValue(side) > SideValue(peer.side) =>
          role = Leader /\ peer.role = Follower)
    /\ (SideValue(side) < SideValue(peer.side) =>
          role = Follower /\ peer.role = Leader)
    /\ Cardinality({r \in {role, peer.role} : r = Leader}) = 1
    /\ (role = Leader) # (peer.role = Leader)

\* C4 witness: both ends have chosen and this end has the greater side
ElectedLeader ==
  /\ BothChose
  /\ SideValue(side) > SideValue(peer.side)
  /\ role = Leader
  /\ peer.role = Follower

\* C5: chooseRole run with the local side on the ChooseRole command (the
\* manager is Connecting) returns an error and the engine goes to Stopped; it
\* does not remain in Connecting.
EqualSidesStop ==
  [][(/\ call'.fn = "chooseRole"
      /\ call'.arg = side
      /\ managerState = ManagerStateConnecting) =>
       ret'.err /\ managerState' = ManagerStateStopped]_vars

\* The transition table of the Manager: [from, event, to, out] per cell.
Cell(from, event, to, out) ==
  [from |-> from, event |-> event, to |-> to, out |-> out]

ManagerTable ==
  {Cell(ManagerStateWaiting, ManagerInputEventStart,
        ManagerStateWanting, <<ManagerOutputEventSendPlease>>),
   Cell(ManagerStateWanting, ManagerInputEventRxPlease,
        ManagerStateConnecting,
        <<ManagerOutputEventChooseRole,
          ManagerOutputEventStartConnectingIgnoreMsg>>),
   Cell(ManagerStateConnecting, ManagerInputEventConnectionMade,
        ManagerStateConnected, <<>>),
   Cell(ManagerStateConnecting, ManagerInputEventRxReconnect,
        ManagerStateConnecting,
        <<ManagerOutputEventStopConnecting,
          ManagerOutputEventSendReconnecting,
          ManagerOutputEventStartConnecting>>),
   Cell(ManagerStateConnecting, ManagerInputEventRxHints,
        ManagerStateConnecting, <<ManagerOutputEventUseHints>>),
   Cell(ManagerStateConnected, ManagerInputEventRxReconnect,
        ManagerStateAbandoning, <<ManagerOutputEventAbandonConnection>>),
   Cell(ManagerStateConnected, ManagerInputEventConnectionLostLeader,
        ManagerStateFlushing, <<ManagerOutputEventSendReconnect>>),
   Cell(ManagerStateConnected, ManagerInputEventConnectionLostFollower,
        ManagerStateLonely, <<>>),
   Cell(ManagerStateFlushing, ManagerInputEventRxReconnecting,
        ManagerStateConnecting, <<ManagerOutputEventStartConnecting>>),
   Cell(ManagerStateLonely, ManagerInputEventRxReconnect,
        ManagerStateConnecting,
        <<ManagerOutputEventSendReconnecting,
          ManagerOutputEventStartConnecting>>),
   Cell(ManagerStateAbandoning, ManagerInputEventConnectionLostFollower,
        ManagerStateConnecting,
        <<ManagerOutputEventSendReconnecting,
          ManagerOutputEventStartConnecting>>),
   Cell(ManagerStateStopping, ManagerInputEventConnectionLostLeader,
        ManagerStateStopped, <<ManagerOutputEventNotifyStopped>>),
   Cell(ManagerStateStopping, ManagerInputEventConnectionLostFollower,
        ManagerStateStopped, <<ManagerOutputEventNotifyStopped>>),
   Cell(ManagerStateWaiting, ManagerInputEventStop,
        ManagerStateStopped, <<ManagerOutputEventNotifyStopped>>),
   Cell(ManagerStateWanting, ManagerInputEventStop,
        ManagerStateStopped, <<ManagerOutputEventNotifyStopped>>),
   Cell(ManagerStateFlushing, ManagerInputEventStop,
        ManagerStateStopped, <<ManagerOutputEventNotifyStopped>>),
   Cell(ManagerStateLonely, ManagerInputEventStop,
        ManagerStateStopped, <<ManagerOutputEventNotifyStopped>>),
   Cell(ManagerStateConnecting, ManagerInputEventStop,
        ManagerStateStopped,
        <<ManagerOutputEventStopConnecting,
          ManagerOutputEventNotifyStopped>>),
   Cell(ManagerStateConnected, ManagerInputEventStop,
        ManagerStateStopping, <<ManagerOutputEventAbandonConnection>>),
   Cell(ManagerStateAbandoning, ManagerInputEventStop,
        ManagerStateStopping, <<>>)}

Listed(from, event) ==
  \E c \in ManagerTable : c.from = from /\ c.event = event

\* C9: on every listed cell of the table managerStateMachine moves to the
\* listed state and returns the listed outputs in the listed order.
ManagerMatchesTable ==
  IsManagerStep =>
    \A c \in ManagerTable :
      (c.from = call.from /\ c.event = call.arg) =>
        managerState = c.to /\ ret.codes = c.out

\* C9 witness: RxReconnect in Connecting has returned its three commands
ReconnectWhileConnecting ==
  /\ IsManagerStep
  /\ call.from = ManagerStateConnecting
  /\ call.arg = ManagerInputEventRxReconnect
  /\ Len(ret.codes) = 3

\* C10: managerStateMachine returns for every state and event code, and on a
\* (state, event) pair the table does not list it changes nothing and
\* returns no output command.
ManagerIgnoresUnlisted ==
  /\ \A event \in ManagerInputEvents : ENABLED ManagerEvent(event)
  /\ (IsManagerStep /\ ~Listed(call.from, call.arg)) =>
       managerState = call.from /\ ret.codes = <<>>

\* C10 witness: an undefined event code fed to a Connected manager
UndefinedCodeFed ==
  /\ IsManagerStep
  /\ call.arg > ManagerInputEventStop
  /\ call.from = ManagerStateConnected

(***************************************************************************)
(* Properties of the Connector and of the L2 connection.                   *)
(***************************************************************************)
\* C6: over any interleaving of Connector and L2 events for any candidates,
\* at most one candidate's L2 connection is Selected.
AtMostOneSelected ==
  /\ Cardinality(selected) <= 1
  /\ selected # {} => l2ConnState = L2ConnStateSelected

\* C6 witness: candA is Selected and a Select for candB has been fed
SecondSelectFed ==
  /\ IsL2Step
  /\ call.arg.Event = L2ConnInputEventSelect
  /\ call.arg.candidate = "candB"
  /\ selected = {"candA"}
  /\ connectorState = ConnectorStateConnected

\* C7: from Connecting, connectorStateMachine emits SelectAndStopRemaining at
\* most once, on an Accept taken in Connecting that moves to Connected; an
\* Accept in any other state changes nothing and emits nothing.
ConnectorSingleWinner ==
  /\ Len(winners) <= 1
  /\ IsConnectorStep =>
       /\ ConnectorOutputEventSelectAndStopRemaining \in Range(ret.codes) =>
            /\ call.arg.Event = ConnectorInputEventAccept
            /\ call.from = ConnectorStateConnecting
            /\ connectorState = ConnectorStateConnected
            /\ winners = <<call.arg.candidate>>
       /\ (/\ call.arg.Event = ConnectorInputEventAccept
           /\ call.from = ConnectorStateConnecting) =>
            ret.codes = <<ConnectorOutputEventSelectAndStopRemaining>>
       /\ (/\ call.arg.Event = ConnectorInputEventAccept
           /\ call.from # ConnectorStateConnecting) =>
            /\ connectorState = call.from
            /\ ret.codes = <<>>
            /\ ret.events = <<>>

\* C7 witness: Accept(candB) fed after Accept(candA) has won
LaterAcceptFed ==
  /\ IsConnectorStep
  /\ call.arg.Event = ConnectorInputEventAccept
  /\ call.arg.candidate = "candB"
  /\ call.from = ConnectorStateConnected
  /\ winners = <<"candA">>

IsPrefix(s, t) == Len(s) <= Len(t) /\ SubSeq(t, 1, Len(s)) = s

\* C8: every GotRecord that arrives before Select is answered by
\* QueueInboundRecord, and once Select has been taken those records have
\* been delivered in arrival order, none lost.
RecordsBufferedUntilSelect ==
  /\ (/\ IsL2Step
      /\ call.arg.Event = L2ConnInputEventGotRecord
      /\ call.from = L2ConnStateSelecting) =>
       [i \in DOMAIN ret.events |-> ret.events[i].Event] =
         <<L2ConnOutputEventQueueInboundRecord>>
  /\ l2ConnState = L2ConnStateSelected =>
       IsPrefix(inbound.arrived, inbound.delivered)

(***************************************************************************)
(* Shutdown, reconnection and the loss events of the Manager.              *)
(***************************************************************************)
\* C11: once a Stop event has been fed to the Manager it eventually reaches
\* Stopped, the shell reporting a connection-lost event after each
\* AbandonConnection; it is never left in Stopping or Abandoning for ever.
StopLeadsToStopped ==
  (IsManagerStep /\ call.arg = ManagerInputEventStop)
    ~> (managerState = ManagerStateStopped)

\* managerStateMachine called with each event of a sequence in turn: the
\* state it moved to and the slice it returned, per call
RECURSIVE managerRun(_, _)
managerRun(state, events) ==
  IF events = <<>> THEN <<>>
  ELSE LET r == managerStateMachine(state, Head(events)) IN
       <<r>> \o managerRun(r.state, Tail(events))

\* n copies of a sequence, one after the other
RECURSIVE Repeat(_, _)
Repeat(seq, n) == IF n = 0 THEN <<>> ELSE seq \o Repeat(seq, n - 1)

\* this many loss/reconnect cycles are run in a row
MaxCycles == 3

\* one loss/reconnect cycle of a Leader, begun in Connecting
LossCycle ==
  <<ManagerInputEventConnectionMade,
    ManagerInputEventConnectionLostLeader,
    ManagerInputEventRxReconnecting>>

LossCycleTrail ==
  <<Step(ManagerStateConnected, <<>>),
    Step(ManagerStateFlushing, <<ManagerOutputEventSendReconnect>>),
    Step(ManagerStateConnecting, <<ManagerOutputEventStartConnecting>>)>>

\* C12: Start, RxPlease, ConnectionMade, ConnectionLostLeader, RxReconnecting
\* take the Manager through Waiting, Wanting, Connecting, Connected, Flushing
\* and back to Connecting; the loss returns SendReconnect and no
\* StartConnecting, RxReconnecting returns StartConnecting; from Connecting
\* a ConnectionMade reaches Connected again, cycle after cycle.
ReconnectAsLeader ==
  /\ managerState = ManagerStateWaiting =>
       managerRun(managerState,
                  <<ManagerInputEventStart, ManagerInputEventRxPlease>>
                    \o LossCycle) =
         <<Step(ManagerStateWanting, <<ManagerOutputEventSendPlease>>),
           Step(ManagerStateConnecting,
                <<ManagerOutputEventChooseRole,
                  ManagerOutputEventStartConnectingIgnoreMsg>>)>>
           \o LossCycleTrail
  /\ managerState = ManagerStateConnecting =>
       \A n \in 1..MaxCycles :
         managerRun(managerState,
                    Repeat(LossCycle, n)
                      \o <<ManagerInputEventConnectionMade>>) =
           Repeat(LossCycleTrail, n)
             \o <<Step(ManagerStateConnected, <<>>)>>
  /\ (IsManagerStep /\ call.from = ManagerStateConnected
        /\ call.arg = ManagerInputEventConnectionLostLeader) =>
       /\ managerState = ManagerStateFlushing
       /\ ret.codes = <<ManagerOutputEventSendReconnect>>
  /\ (IsManagerStep /\ call.from = ManagerStateFlushing
        /\ call.arg = ManagerInputEventRxReconnecting) =>
       /\ managerState = ManagerStateConnecting
       /\ ret.codes = <<ManagerOutputEventStartConnecting>>
  /\ (IsManagerStep /\ call.from = ManagerStateConnecting
        /\ call.arg = ManagerInputEventConnectionMade) =>
       /\ managerState = ManagerStateConnected
       /\ ret.codes = <<>>

\* C12 witness: the Manager is back in Connecting, on the RxReconnecting that
\* followed a loss, with StartConnecting returned
ReconnectedAfterLoss ==
  /\ IsManagerStep
  /\ call.from = ManagerStateFlushing
  /\ call.arg = ManagerInputEventRxReconnecting
  /\ managerState = ManagerStateConnecting
  /\ ret.codes = <<ManagerOutputEventStartConnecting>>

\* C13: a managerStateMachine call on an engine whose role is Follower
\* neither returns SendReconnect nor enters Flushing, and one on an engine
\* whose role is Leader does not enter Lonely.
LossFollowsRole ==
  IsManagerStep =>
    /\ role = Follower =>
         /\ ManagerOutputEventSendReconnect \notin Range(ret.codes)
         /\ (managerState = ManagerStateFlushing =>
               call.from = ManagerStateFlushing)
    /\ role = Leader =>
         (managerState = ManagerStateLonely =>
            call.from = ManagerStateLonely)

(***************************************************************************)
(* The Connector and L2 machines against their rules, and their wrappers.  *)
(***************************************************************************)
\* the rules of the Connector: [from, event, to, out] per rule
ConnectorRules ==
  {Cell(ConnectorStateConnecting, ConnectorInputEventListenerReady,
        ConnectorStateConnecting, <<ConnectorOutputEventPublishHints>>),
   Cell(ConnectorStateConnecting, ConnectorInputEventAddCandidate,
        ConnectorStateConnecting, <<ConnectorOutputEventConsider>>),
   Cell(ConnectorStateConnecting, ConnectorInputEventGotHints,
        ConnectorStateConnecting, <<ConnectorOutputEventUseHints>>),
   Cell(ConnectorStateConnecting, ConnectorInputEventAddRelay,
        ConnectorStateConnecting,
        <<ConnectorOutputEventUseHints, ConnectorOutputEventPublishHints>>),
   Cell(ConnectorStateConnecting, ConnectorInputEventAccept,
        ConnectorStateConnected,
        <<ConnectorOutputEventSelectAndStopRemaining>>),
   Cell(ConnectorStateConnecting, ConnectorInputEventStop,
        ConnectorStateStopped, <<ConnectorOutputEventStopEverything>>),
   Cell(ConnectorStateConnected, ConnectorInputEventStop,
        ConnectorStateStopped, <<ConnectorOutputEventStopEverything>>)}

\* C14: on every rule of the Connector connectorStateMachine moves to the
\* listed state and returns the listed commands in the listed order.
ConnectorMatchesRules ==
  IsConnectorStep =>
    \A c \in ConnectorRules :
      (c.from = call.from /\ c.event = call.arg.Event) =>
        connectorState = c.to /\ ret.codes = c.out

\* C14 witness: AddRelay in Connecting has returned its two commands
RelayAddedWhileConnecting ==
  /\ IsConnectorStep
  /\ call.from = ConnectorStateConnecting
  /\ call.arg.Event = ConnectorInputEventAddRelay
  /\ Len(ret.codes) = 2
  /\ connectorState = ConnectorStateConnecting

\* C15: processConnectorStateMachine returns one command per code that
\* connectorStateMachine returned, in the same order, each with the payload
\* of the input that its code carries.
ConnectorWrapperCarriesCodes ==
  IsConnectorStep =>
    ret.events =
      Concat([i \in DOMAIN ret.codes |->
                connectorOutputFor(ret.codes[i], call.arg)])

\* the transitions of the L2 connection: [from, event, to, out] per rule
L2ConnRules ==
  {Cell(L2ConnStateUnselected, L2ConnInputEventGotKCM,
        L2ConnStateSelecting, <<L2ConnOutputEventAddCandidate>>),
   Cell(L2ConnStateSelecting, L2ConnInputEventSelect,
        L2ConnStateSelected,
        <<L2ConnOutputEventSetManager,
          L2ConnOutputEventCanSendRecords,
          L2ConnOutputEventProcessInboundQueue>>),
   Cell(L2ConnStateSelecting, L2ConnInputEventGotRecord,
        L2ConnStateSelecting, <<L2ConnOutputEventQueueInboundRecord>>),
   Cell(L2ConnStateSelected, L2ConnInputEventGotRecord,
        L2ConnStateSelected, <<L2ConnOutputEventDeliverRecord>>)}

\* C16: on every listed transition l2ConnStateMachine moves to the listed
\* state and returns the listed commands in the listed order, and once the
\* L2 is Selected no call leaves Selected or returns QueueInboundRecord.
L2ConnMatchesRules ==
  [][/\ call'.fn = "processL2ConnStateMachine" =>
          \A c \in L2ConnRules :
            (c.from = l2ConnState /\ c.event = call'.arg.Event) =>
              l2ConnState' = c.to /\ ret'.codes = c.out
     /\ l2ConnState = L2ConnStateSelected =>
          /\ l2ConnState' = L2ConnStateSelected
          /\ call'.fn = "processL2ConnStateMachine" =>
               L2ConnOutputEventQueueInboundRecord \notin Range(ret'.codes)
    ]_vars

\* C16 witness: a record that arrived on the Selected L2 was answered by
\* DeliverRecord
RecordWhileSelected ==
  /\ IsL2Step
  /\ call.from = L2ConnStateSelected
  /\ call.arg.Event = L2ConnInputEventGotRecord
  /\ ret.codes = <<L2ConnOutputEventDeliverRecord>>
  /\ l2ConnState = L2ConnStateSelected

\* C17: processL2ConnStateMachine returns commands whose codes are the codes
\* that l2ConnStateMachine returned for the event, in the same order.
L2WrapperKeepsCodes ==
  IsL2Step =>
    [i \in DOMAIN ret.events |-> ret.events[i].Event] = ret.codes

(***************************************************************************)
(* The engine as InitDilation creates it, and across connection attempts.  *)
(***************************************************************************)
\* C18: after InitDilation the Manager is Waiting, the Connector Connecting
\* and the L2 Unselected, so an Accept fed before any Accept or Stop was
\* honoured moves the Connector to Connected with SelectAndStopRemaining,
\* and a GotKCM fed before any was honoured moves the L2 to Selecting with
\* AddCandidate.
FreshEngineInitialStates ==
  /\ call.fn = "InitDilation" =>
       /\ managerState = ManagerStateWaiting
       /\ connectorState = ConnectorStateConnecting
       /\ l2ConnState = L2ConnStateUnselected
  /\ (/\ IsConnectorStep
      /\ call.arg.Event = ConnectorInputEventAccept
      /\ call.from \notin {ConnectorStateConnected, ConnectorStateStopped}) =>
       /\ connectorState = ConnectorStateConnected
       /\ ret.codes = <<ConnectorOutputEventSelectAndStopRemaining>>
  /\ (/\ IsL2Step
      /\ call.arg.Event = L2ConnInputEventGotKCM
      /\ call.from \notin {L2ConnStateSelecting, L2ConnStateSelected}) =>
       /\ l2ConnState = L2ConnStateSelecting
       /\ ret.codes = <<L2ConnOutputEventAddCandidate>>

\* C19: when the Manager re-enters Connecting after a lost connection
\* (from Flushing, Lonely or Abandoning, returning StartConnecting) the
\* Connector is in Connecting again, whatever the previous attempt left.
ConnectorRaceRenewed ==
  (/\ IsManagerStep
   /\ managerState = ManagerStateConnecting
   /\ call.from \in {ManagerStateFlushing, ManagerStateLonely,
                     ManagerStateAbandoning}
   /\ ManagerOutputEventStartConnecting \in Range(ret.codes)) =>
    connectorState = ConnectorStateConnecting

\* C20: over any sequence of events the Manager returns SendPlease at most
\* once and ChooseRole at most once; no call enters Waiting, and Wanting is
\* entered from Waiting only.
HandshakeOnce ==
  /\ sent.please <= 1
  /\ sent.chooseRole <= 1
  /\ IsManagerStep =>
       /\ managerState = ManagerStateWaiting =>
            call.from = ManagerStateWaiting
       /\ managerState = ManagerStateWanting =>
            call.from \in {ManagerStateWaiting, ManagerStateWanting}
       /\ ManagerOutputEventSendPlease \in Range(ret.codes) =>
            call.from = ManagerStateWaiting
       /\ ManagerOutputEventChooseRole \in Range(ret.codes) =>
            call.from = ManagerStateWanting

\* C20 witness: the Manager has re-entered Connecting from Lonely on the
\* RxReconnect that follows a loss, with no ChooseRole returned and both
\* counts still at one
ReconnectKeepsHandshake ==
  /\ IsManagerStep
  /\ call.from = ManagerStateLonely
  /\ call.arg = ManagerInputEventRxReconnect
  /\ managerState = ManagerStateConnecting
  /\ ManagerOutputEventStartConnecting \in Range(ret.codes)
  /\ ManagerOutputEventChooseRole \notin Range(ret.codes)
  /\ sent.please = 1
  /\ sent.chooseRole = 1

(***************************************************************************)
(* The frame decoder and the encoders.                                     *)
(***************************************************************************)
\* the frames received so far and the events sent for them
Received == msgInput.sent
Pushed == managerInputEv.sent

\* the frame carries one of the four types of eventMap
IsTyped(plaintext) ==
  /\ plaintext.json
  /\ plaintext.type.kind = "string"
  /\ plaintext.type.val \in
       {"please", "connection-hints", "reconnect", "reconnecting"}

\* the event the rules give for a type
EventOfType(t) ==
  CASE t = "please" -> ManagerInputEventRxPlease
    [] t = "connection-hints" -> ManagerInputEventRxHints
    [] t = "reconnect" -> ManagerInputEventRxReconnect
    [] t = "reconnecting" -> ManagerInputEventRxReconnecting

\* C21: each received frame of type please, connection-hints, reconnect or
\* reconnecting has exactly one event sent for it, the one of its type, and
\* the events are sent, and taken by the Manager, in the order of the frames.
TypedFramesBecomeEvents ==
  /\ \A n \in DOMAIN Received :
       IsTyped(Received[n]) =>
         /\ Cardinality({i \in DOMAIN Pushed : Pushed[i].frame = n}) = 1
         /\ \A i \in DOMAIN Pushed :
              Pushed[i].frame = n =>
                Pushed[i].event = EventOfType(Received[n].type.val)
  /\ \A i, j \in DOMAIN Pushed :
       i < j => Pushed[i].frame < Pushed[j].frame
  /\ (IsManagerStep /\ call.arg # ManagerInputEventStart) =>
       /\ taken \in DOMAIN Pushed
       /\ call.arg = Pushed[taken].event

\* C21 witness: a reconnect frame received after a please frame, both events
\* sent in that order and the first taken by the Manager
ReconnectAfterPlease ==
  /\ Len(Received) >= 2
  /\ Received[1].type = JString("please")
  /\ Received[2].type = JString("reconnect")
  /\ Len(Pushed) >= 2
  /\ Pushed[1].event = ManagerInputEventRxPlease
  /\ Pushed[2].event = ManagerInputEventRxReconnect
  /\ taken >= 1

\* C22: a received frame that is not JSON, has no type or has a type that
\* is none of the four is discarded: no event is sent for it, the Manager is
\* handed nothing on its account, and the decoder goes on.
OtherFramesDiscarded ==
  /\ \A n \in DOMAIN Received :
       ~IsTyped(Received[n]) =>
         \A i \in DOMAIN Pushed : Pushed[i].frame # n
  /\ ~panicked
  /\ (IsManagerStep /\ call.arg # ManagerInputEventStart) =>
       IsTyped(Received[Pushed[taken].frame])

\* the frame is a please frame with a side
IsPlease(plaintext) ==
  /\ plaintext.json
  /\ plaintext.type = JString("please")
  /\ plaintext.side # NoSide

\* C23: the event sent for a please frame carries the side of that frame:
\* the side can be read off the event, so please frames with different
\* sides are never sent the same event value.
PleaseEventCarriesSide ==
  \A i, j \in DOMAIN Pushed :
    (/\ IsPlease(Received[Pushed[i].frame])
     /\ IsPlease(Received[Pushed[j].frame])
     /\ Received[Pushed[i].frame].side # Received[Pushed[j].frame].side) =>
      Pushed[i].event # Pushed[j].event

\* C24: genPleaseMsg returns the object with type "please" and side the
\* engine's side; genDilationMsg(payload, n) returns the object with type
\* "add", phase "dilate-n" and body the hex encoding of payload.
EncodersReturnFrames ==
  /\ encoded.fn = "genPleaseMsg" =>
       /\ DOMAIN encoded.out = {"type", "side"}
       /\ encoded.out["type"] = <<"please">>
       /\ encoded.out["side"] = side
  /\ encoded.fn = "genDilationMsg" =>
       /\ DOMAIN encoded.out = {"type", "phase", "body"}
       /\ encoded.out["type"] = <<"add">>
       /\ encoded.out["phase"] = DilatePhase(encoded.phase)
       /\ encoded.out["body"] = EncodeToString(encoded.payload)

(***************************************************************************)
(* Properties of the senders.                                              *)
(***************************************************************************)
\* what was sent through the channel the caller was given
Delivered == IF job.fn = "SendDirectory" THEN retCh ELSE ch.sent

\* the goroutine has ended and nothing is left to forward
SendEnded ==
  /\ sender.pc \in {"done", "crashed"}
  /\ job.fn = "SendDirectory" => (ch.sent = <<>> \/ retCh # <<>>)

\* C25: a send that returned a result channel delivers exactly one
\* SendResult on it on every path: never more than one, and one once the
\* send has ended.
ExactlyOneResult ==
  /\ Len(Delivered) <= 1
  /\ SendEnded => Len(Delivered) = 1

\* C26: every result that reports a failure (OK false) carries a non-nil
\* Error.
FailuresCarryError ==
  \A i \in DOMAIN ch.sent :
    ~ch.sent[i].OK => ch.sent[i].Error # NilErr

\* what the goroutine reported
Succeeded == ch.sent # <<>> /\ ch.sent[1].OK
Failed == ch.sent # <<>> /\ ~ch.sent[1].OK
\* the receiver rejected the offer of a file or directory
OfferRejected ==
  job.fn # "SendText" /\ Failed /\ ch.sent[1].Error = ErrTransferRejected
DecryptFailed == Failed /\ ch.sent[1].Error = errDecryptFailed

\* C27: the rendezvous connection is closed at most once, and once when the
\* goroutine has returned; the mood is happy only after a success or a
\* rejected file offer, scary exactly after a decryption failure, and
\* errory after every other failure.
MoodFollowsOutcome ==
  /\ Len(rc) <= 1
  /\ sender.pc = "done" =>
       /\ Len(rc) = 1
       /\ (rc[1] = Happy) => (Succeeded \/ OfferRejected)
       /\ (rc[1] = Scary) <=> DecryptFailed
       /\ (~Succeeded /\ ~OfferRejected /\ ~DecryptFailed) =>
            (rc[1] = Errory)

\* C28: the progress function of a text send is called only when the send
\* succeeds, after the offer was written and acknowledged, once, with the
\* length of the message as sent and as total; a failed text send never
\* calls it.
TextProgressOnce ==
  job.fn = "SendText" =>
    /\ progressCalls # <<>> =>
         /\ job.progressFunc
         /\ progressCalls = <<[sent |-> job.size, total |-> job.size]>>
         /\ "offer" \in Range(peerMsgs)
         /\ Succeeded
    /\ (job.progressFunc /\ Succeeded) => Len(progressCalls) = 1
    /\ Failed => progressCalls = <<>>

\* a text of more than one byte was sent and reported to the progress
\* function
TextProgressReported ==
  /\ job.fn = "SendText"
  /\ job.size > 1
  /\ sender.pc = "done"
  /\ progressCalls = <<[sent |-> job.size, total |-> job.size]>>

\* what is sent to the peer after the verifier was accepted
AfterVerifier == {"offer", "transit", "record"}

\* C29 as stated: once VerifierOk has returned false an error message has
\* been written to the peer, the result is the error "sender rejected
\* verification check, abandoned transfer", and no offer, transit message
\* or record is written.
VerifierRejectionReported ==
  sender.verified = "false" =>
    /\ "error" \in Range(peerMsgs)
    /\ ch.sent = <<SendResult(FALSE, ErrVerifierRejected)>>
    /\ Range(peerMsgs) \cap AfterVerifier = {}

\* C29, amended: once VerifierOk has returned false no offer, transit
\* message or record is written and the send has failed; the result is the
\* error "sender rejected verification check, abandoned transfer" when the
\* error message was written to the peer, and the error of that write when
\* it failed.
VerifierRejectionEndsSend ==
  sender.verified = "false" =>
    /\ Range(peerMsgs) \cap AfterVerifier = {}
    /\ Len(ch.sent) = 1
    /\ Failed
    /\ IF "error" \in Range(peerMsgs)
       THEN ch.sent[1].Error = ErrVerifierRejected
       ELSE ch.sent[1].Error \in
              (MailboxErrors(TRUE) \cup MailboxErrors(FALSE)) \ {NilErr}

\* the verifier was rejected, the peer told, the goroutine has returned
VerifierRejectedPeerTold ==
  /\ sender.verified = "false"
  /\ sender.pc = "done"
  /\ "error" \in Range(peerMsgs)

\* where the goroutine of a file send is while the send is pending or in
\* progress: from its first call to the loop over the records
InFlight == {FileSteps[i] : i \in 1..15}

\* C30: a file or directory send whose context was cancelled while it was
\* pending or in progress has, once its goroutine has returned, delivered
\* one result, with OK false.
CancelEndsFileSend ==
  (/\ job.fn # "SendText"
   /\ ctx.done
   /\ ctx.at \in InFlight
   /\ sender.pc = "done"
   /\ SendEnded) =>
    (Len(Delivered) = 1 /\ ~Delivered[1].OK)

(***************************************************************************)
(* Further properties of the three machines.                               *)
(***************************************************************************)
\* the Manager has just stepped from a state other than Stopped to Stopped
EnteredStopped ==
  /\ IsManagerStep
  /\ call.from # ManagerStateStopped
  /\ managerState = ManagerStateStopped

\* C31: a step of the Manager returns NotifyStopped exactly when it moves
\* from a state other than Stopped to Stopped, and then as its last command
\* and once; over a whole run NotifyStopped is returned at most once.
NotifyStoppedOnEntry ==
  /\ sent.notifyStopped <= 1
  /\ IsManagerStep =>
       /\ EnteredStopped <=>
            ManagerOutputEventNotifyStopped \in Range(ret.codes)
       /\ EnteredStopped =>
            /\ ret.codes[Len(ret.codes)] = ManagerOutputEventNotifyStopped
            /\ Count(ret.codes, ManagerOutputEventNotifyStopped) = 1

\* C31 witness: Stop in Connecting returned StopConnecting and then
\* NotifyStopped
StoppedWhileConnecting ==
  /\ EnteredStopped
  /\ call.from = ManagerStateConnecting
  /\ ret.codes = <<ManagerOutputEventStopConnecting,
                   ManagerOutputEventNotifyStopped>>
  /\ sent.notifyStopped = 1

\* C32: a connection attempt is running exactly when the Manager is in
\* Connecting, and never more than one.
AttemptsBalanced ==
  /\ sent.attempts \in {0, 1}
  /\ sent.attempts = 1 <=> managerState = ManagerStateConnecting

\* C32 witness: an RxReconnect in Connecting has stopped the running attempt
\* and started another
AttemptRestarted ==
  /\ IsManagerStep
  /\ call.from = ManagerStateConnecting
  /\ call.arg = ManagerInputEventRxReconnect
  /\ ManagerOutputEventStopConnecting \in Range(ret.codes)
  /\ sent.attempts = 1

\* C33: whenever the Manager is in Connected, Flushing, Lonely, Abandoning
\* or Stopping, role is Leader or Follower, the shell having run chooseRole
\* on each ChooseRole command before it fed the next event.
RoleBeforeConnection ==
  managerState \in {ManagerStateConnected, ManagerStateFlushing,
                    ManagerStateLonely, ManagerStateAbandoning,
                    ManagerStateStopping} =>
    role \in {Leader, Follower}

\* the outcome of the two calls run one after the other from startState,
\* goroutine first going first: the final state and each call's output
Serial(first) ==
  LET a == managerStateMachine(startState, goroutines[first].event)
      b == managerStateMachine(a.state, goroutines[3 - first].event)
  IN [state |-> b.state,
      out |-> [g \in 1..2 |-> IF g = first THEN a.out ELSE b.out]]

BothReturned == \A g \in 1..2 : goroutines[g].pc = "returned"

\* C34: when two goroutines have called managerStateMachine concurrently,
\* the final state and the two outputs are those of the two calls run one
\* after the other in some order.
ConcurrentCallsSerialize ==
  BothReturned =>
    [state |-> managerState,
     out |-> [g \in 1..2 |-> goroutines[g].outputEvents]]
      \in {Serial(1), Serial(2)}

\* C35: once the Connector has left Connecting no candidate activity is
\* commanded: in Connected every event but Stop changes nothing and returns
\* nothing, and in Stopped every event, Stop included, changes nothing and
\* returns nothing.
QuietAfterConnecting ==
  IsConnectorStep =>
    /\ (call.from = ConnectorStateConnected
          /\ call.arg.Event # ConnectorInputEventStop) =>
         /\ connectorState = ConnectorStateConnected
         /\ ret.codes = <<>>
         /\ ret.events = <<>>
    /\ call.from = ConnectorStateStopped =>
         /\ connectorState = ConnectorStateStopped
         /\ ret.codes = <<>>
         /\ ret.events = <<>>
    /\ call.from # ConnectorStateConnecting =>
         Range(ret.codes) \subseteq {ConnectorOutputEventStopEverything}

\* C35 witness: hints arrived after a winner had been selected and were
\* dropped
HintsAfterConnected ==
  /\ IsConnectorStep
  /\ call.from = ConnectorStateConnected
  /\ call.arg.Event = ConnectorInputEventGotHints
  /\ Len(winners) = 1
  /\ ret.events = <<>>

\* the L2 commands that belong to a selected connection
SelectedCommands ==
  {L2ConnOutputEventSetManager, L2ConnOutputEventCanSendRecords,
   L2ConnOutputEventProcessInboundQueue, L2ConnOutputEventDeliverRecord}

\* C36: the L2 connection enters Selected only by a Select taken in
\* Selecting, and enters Selecting only by a GotKCM taken in Unselected; a
\* Select in Unselected changes nothing and returns nothing; SetManager,
\* CanSendRecords, ProcessInboundQueue and DeliverRecord are returned only
\* by steps that end in Selected.
SelectedOnlyAfterKCM ==
  IsL2Step =>
    /\ (l2ConnState = L2ConnStateSelected
          /\ call.from # L2ConnStateSelected) =>
         /\ call.from = L2ConnStateSelecting
         /\ call.arg.Event = L2ConnInputEventSelect
    /\ (l2ConnState = L2ConnStateSelecting
          /\ call.from # L2ConnStateSelecting) =>
         /\ call.from = L2ConnStateUnselected
         /\ call.arg.Event = L2ConnInputEventGotKCM
    /\ (call.from = L2ConnStateUnselected
          /\ call.arg.Event = L2ConnInputEventSelect) =>
         /\ l2ConnState = L2ConnStateUnselected
         /\ ret.codes = <<>>
         /\ ret.events = <<>>
    /\ l2ConnState # L2ConnStateSelected =>
         /\ Range(ret.codes) \cap SelectedCommands = {}
         /\ \A i \in DOMAIN ret.events :
              ret.events[i].Event \notin SelectedCommands

\* C36 witness: a Select arrived before any key confirmation message and
\* was dropped
SelectBeforeKCM ==
  /\ IsL2Step
  /\ call.from = L2ConnStateUnselected
  /\ call.arg.Event = L2ConnInputEventSelect
  /\ l2ConnState = L2ConnStateUnselected
  /\ ret.codes = <<>>

\* C37: a step of managerStateMachine leaves connectorState, l2ConnState,
\* role and side unchanged; a step of connectorStateMachine leaves
\* managerState, l2ConnState, role and side unchanged; a step of
\* l2ConnStateMachine leaves managerState, connectorState, role and side
\* unchanged; and no step changes side.
MachinesIndependent ==
  [][/\ side' = side
     /\ call'.fn = "managerStateMachine" =>
          UNCHANGED <<connectorState, l2ConnState, role>>
     /\ call'.fn = "processConnectorStateMachine" =>
          UNCHANGED <<managerState, l2ConnState, role>>
     /\ call'.fn = "processL2ConnStateMachine" =>
          UNCHANGED <<managerState, connectorState, role>>]_vars

\* C37 witness: the Manager has stepped into Connecting while the role was
\* chosen, the Connector had a winner and the L2 connection was selected
SteppedBesideTheOthers ==
  /\ IsManagerStep
  /\ call.from = ManagerStateWanting
  /\ managerState = ManagerStateConnecting
  /\ role = Follower
  /\ connectorState = ConnectorStateConnected
  /\ l2ConnState = L2ConnStateSelected

\* the calls that had returned nil before the i-th one did
Earlier(i) == {sender.calls[k] : k \in 1..(i - 1)}

\* C38: in sendFileDirectory the transit message and the offer are written
\* only after WritePake, ReadPake, WriteVersion and ReadVersion have
\* returned nil and, when a VerifierOk is set, after it has accepted the
\* verifier; a record is written only after waitFor has returned an answer
\* whose file_ack is ok and acceptConnection has returned a connection.
ProtocolOrder ==
  job.fn \in {"SendFile", "SendDirectory"} =>
    /\ \A i \in DOMAIN sender.calls :
         /\ sender.calls[i] \in {"WriteTransit", "WriteOffer"} =>
              /\ {"WritePake", "ReadPake", "WriteVersion", "ReadVersion"}
                   \subseteq Earlier(i)
              /\ job.VerifierOk # "nil" =>
                   "Verifier" \in Earlier(i) /\ sender.verified = "true"
         /\ sender.calls[i] = "writeRecord" =>
              {"waitFor", "acceptConnection"} \subseteq Earlier(i)
    /\ "transit" \in Range(peerMsgs) => "WriteTransit" \in Range(sender.calls)
    /\ "offer" \in Range(peerMsgs) => "WriteOffer" \in Range(sender.calls)
    /\ Count(peerMsgs, "record") = Count(sender.calls, "writeRecord")

\* C38 witness: with a VerifierOk set, a file has been offered and its
\* first record written
RecordAfterHandshake ==
  /\ job.fn = "SendFile"
  /\ job.VerifierOk = "true"
  /\ peerMsgs = <<"pake", "version", "transit", "offer", "record">>
  /\ sender.calls[Len(sender.calls)] = "writeRecord"

\* C39: sendFileDirectory has sent OK true only if every record of the
\* source was written to the peer, the final record was read without error,
\* its Ack is ok and its SHA256 is the hash of exactly the records that
\* were written; otherwise what it sent, if anything, is not OK.
OkOnlyWhenAcknowledged ==
  (job.fn \in {"SendFile", "SendDirectory"} /\ Succeeded) =>
    /\ Len(ch.sent) = 1
    /\ Count(peerMsgs, "record") = job.size
    /\ sender.progress = job.size
    /\ recordChan.ready
    /\ ~recordChan.rec.err
    /\ recordChan.rec.json
    /\ recordChan.rec.Ack = "ok"
    /\ recordChan.rec.SHA256.sum = Count(peerMsgs, "record")

\* C39 witness: a file of the greatest length was sent whole and
\* acknowledged with its hash in upper-case hex digits
FileAcknowledged ==
  /\ job.fn = "SendFile"
  /\ job.size = MaxChunks
  /\ Succeeded
  /\ sender.pc = "done"
  /\ recordChan.rec.SHA256 = [sum |-> MaxChunks, upper |-> TRUE]

====
